---- MODULE Spec2Model ----
(***************************************************************************)
(* Rollout coordination and experience collection of maro.rl.learning:     *)
(*   - EnvSampler.sample (env_sampler.py): the simulation-driving loop and  *)
(*     the delayed-reward flush of the per-agent transition cache;          *)
(*   - DistributedRolloutManager (rollout_manager.py): its construction,    *)
(*     the quorum and staleness aware aggregation of remote workers'        *)
(*     replies in collect, and evaluate;                                    *)
(*   - SimpleRolloutManager (rollout_manager.py): its construction, and     *)
(*     collect and evaluate in place or over a pool of worker processes;    *)
(*   - AgentWrapper (env_sampler.py): the routing of states to local        *)
(*     policies and to policies hosted in processes of their own;           *)
(*   - EnvSampler.test (env_sampler.py): the evaluation run;                *)
(*   - EnvSampler.actor (env_sampler.py): the loop of an actor that talks   *)
(*     to a policy server.                                                  *)
(* Spec is the EnvSampler; SpecDist is collect of a constructed remote      *)
(* coordinator with its workers, SpecDefaults the same from the             *)
(* construction on, SpecRemote adds evaluate; SpecSimple is the local       *)
(* coordinator; SpecAgent is the AgentWrapper with its policy hosts,        *)
(* SpecRecord its recording of transitions and gathering of experience;     *)
(* SpecTest is the EnvSampler with sample and test calls; SpecActor is the  *)
(* actor with its policy server.  The simulation (Env), the policies, the   *)
(* policy server and the transport are external: their answers are drawn    *)
(* nondeterministically.                                                    *)
(***************************************************************************)
EXTENDS Integers, Sequences, FiniteSets, TLC

\* ------------------------------------------------------------------ bounds
\* Last tick of the simulation (env.tick stays within 0..MaxTick).
MaxTick == 5
\* Largest number of decision steps of one episode that is explored.
MaxSteps == 2
\* reward_eval_delay is drawn from 0..MaxDelay.
MaxDelay == 3
\* Ticks the simulation advances from one decision point to the next (several
\* decision points may share a tick).
Jumps == 0..3
\* The step budgets (num_steps) a caller passes: -1 or a positive integer.
NumSteps == {-1, 1, 2}

\* Remote workers of the DistributedRolloutManager (num_workers).
NumWorkers == 2
\* The collect calls explored: a first call and one after it.
Calls == 1..2
\* The {episode, segment} pairs a caller passes to collect.
Rounds == {<<1, 1>>, <<1, 2>>, <<2, 1>>}
\* The first call is for episode 1, segment 1 with the initial version 0.
FirstCall == <<1, 1, 0>>
\* From one collect call to the next the policy version stays or grows by one.
VersionSteps == {0, 1}
\* The values max_lag is configured with.
Lags == {0, 1}
\* The values max_extra_recv_tries is configured with.
Tries == {0, 2}

\* The num_steps a coordinator is constructed with, valid ones and invalid ones.
StepArgs == {-2, -1, 0, 1}
\* The evaluate calls made on a DistributedRolloutManager, and their episodes.
EvalCalls == 1..1
EvalEpisodes == {1, 2}
\* The collect and evaluate calls made on a SimpleRolloutManager.
SimpleCalls == 1..3

Agents == {"a1", "a2"}
Policies == {"p1", "p2"}
\* The policies a worker's get_rollout_info answers for: the local RLPolicy
\* instances and the isolated policies.  It is empty when every policy is a
\* local policy that is no RLPolicy.
PolicySets == {{}, {"p1"}, {"p1", "p2"}}
Workers == 1..NumWorkers

\* num_steps = -1 is the unbounded budget (float("inf") in steps_to_go).
Unbounded == -1

\* self._state = None
NoState == [agents |-> {}, dp |-> 0]

VARIABLES
    \* ---- EnvSampler (env_sampler.py:207-229)
    reward_eval_delay,   \* self.reward_eval_delay
    tick,                \* self.env.tick
    state,               \* self._state: the agents of the decision point dp
    step_index,          \* self._step_index
    terminal,            \* self._terminal
    transition_cache,    \* self._transition_cache: agent -> queue of records
    pc,                  \* position of the sample call: "idle" or "loop"
    steps_to_go,         \* local of sample
    starting_step_index, \* local of sample
    result,              \* what the last sample call returned
    recorded,            \* per agent, the record_transition calls of the episode
    tracker              \* self.tracker: the transitions post_step has written to it

VARIABLES
    \* ---- DistributedRolloutManager (rollout_manager.py:297-336)
    min_finished_workers,  \* self._min_finished_workers
    max_extra_recv_tries,  \* self._max_extra_recv_tries
    extra_recv_timeout,    \* self._extra_recv_timeout
    max_lag,               \* self._max_lag
    episode_complete,      \* self.episode_complete
    exploration_step,      \* self._exploration_step
    cpc,                   \* position of the collect call
    cur,                   \* the arguments of the collect call: ep, segment, version
    num_finishes,          \* local of collect
    info_list_by_policy,   \* local of collect, and its return value
    trackers,              \* local of collect
    tries,                 \* the index i of the extra-receive loop
    received,              \* the messages the collect call received, in order
    ncalls,                \* collect calls made so far
    \* ---- the workers and the transport
    rollout_policies,      \* the policies the workers' rollout_info answers for
    inbox,                 \* per worker, the requests sent to it and not yet handled
    chan                   \* per worker, its replies the manager has not yet received

VARIABLES
    \* ---- SimpleRolloutManager (rollout_manager.py:96-166)
    ctor,             \* the constructor call: its arguments, and new/raised/ready
    mgr,              \* the fields of the manager
    worker_self,      \* the workers' copy of the manager's fields, made at their start
    started,          \* the worker processes started
    to_worker,        \* per worker, the Pipe from the manager: requests not yet handled
    to_manager,       \* per worker, the Pipe to the manager: replies not yet received
    spc,              \* position of the call: "idle", "collect" or "evaluate"
    conn_index,       \* the manager end the receive loop has reached
    info_by_policy,   \* local of collect, and its return value
    strackers,        \* trackers, local of collect and of evaluate
    outcome,          \* how the last call ended: returned, or the exception raised
    scalls,           \* collect and evaluate calls made so far
    given,            \* the exploration_step arguments of the sample calls of the last collect
    prev_complete,    \* episode_complete when the last collect call was made
    contacted,        \* the workers the last evaluate call sent a request to
    sample_policies,  \* the policies the samplers' rollout_info answers for
    ended             \* per worker, whether its sampler's last sample call ended the episode

lvars == <<ctor, mgr, worker_self, started, to_worker, to_manager, spc, conn_index,
           info_by_policy, strackers, outcome, scalls, given, prev_complete,
           contacted, sample_policies, ended>>

dvars == <<min_finished_workers, max_extra_recv_tries, extra_recv_timeout, max_lag,
           episode_complete, exploration_step, cpc, cur, num_finishes,
           info_list_by_policy, trackers, tries, received, ncalls,
           rollout_policies, inbox, chan>>

VARIABLES
    \* ---- DistributedRolloutManager: construction and evaluate
    dctor,             \* the constructor call: its arguments, and new/raised/ready
    self_num_steps,    \* self._num_steps
    num_eval_workers,  \* self._num_eval_workers
    epc,               \* position of the evaluate call: "idle" or "recv"
    eval_ep,           \* the argument ep of the evaluate call
    eval_left,         \* iterations the for loop of evaluate has left
    eval_finishes,     \* num_finishes, local of evaluate
    eval_trackers,     \* trackers, local of evaluate, and its return value
    eval_received,     \* the messages the evaluate call received, in order
    ecalls             \* evaluate calls made so far

evars == <<dctor, self_num_steps, num_eval_workers, epc, eval_ep, eval_left,
           eval_finishes, eval_trackers, eval_received, ecalls>>

VARIABLES
    \* ---- EnvSampler.actor (env_sampler.py:371-433)
    actor_pc,                \* position of the actor
    num_episodes,            \* num_episodes
    actor_ep,                \* ep, the variable of the for loop
    actor_exploration_step,  \* exploration_step, local of actor
    policy_state_dict,       \* policy_state_dict, local of actor
    policy_version,          \* policy_version, local of actor
    actor_result,            \* result["end_of_episode"] of the last sample call
    to_server,               \* messages the policy server has not yet received
    from_server,             \* replies the actor has not yet received
    server_version,          \* the version of the policy states the server holds
    sampled,                 \* the sample calls made, with their arguments and outcome
    served                   \* the SAMPLE_DONE messages the server has received

cvars == <<actor_pc, num_episodes, actor_ep, actor_exploration_step, policy_state_dict,
           policy_version, actor_result, to_server, from_server, server_version, sampled,
           served>>

VARIABLES
    \* ---- AgentWrapper (env_sampler.py:20-160)
    agent2policy,      \* self.agent2policy
    isolated,          \* self._policies_to_parallelize: the keys of self._conn
    to_host,           \* per isolated policy, the messages its host has not yet received
    from_host,         \* per isolated policy, the replies the wrapper has not yet received
    policy_state,      \* per policy, the state its policy object holds
    policy_mode,       \* per policy, the mode its policy object is in
    apc,               \* position of the caller: "idle", inside a call, or "raised"
    state_by_agent,    \* the argument of the choose_action call
    awaiting,          \* the policies the receive loop has still to receive from
    action,            \* action, local of choose_action
    choice,            \* what the last choose_action call returned
    info,              \* the replies the last gather call received
    snapshot,          \* the argument of the last set_policy_states call that returned
    acalls,            \* calls made so far
    policy_recorded,   \* per policy, the transitions its policy object has recorded
    handed             \* per policy, the transitions record_transition was called with

avars == <<agent2policy, isolated, to_host, from_host, policy_state, policy_mode, apc,
           state_by_agent, awaiting, action, choice, info, snapshot, acalls,
           policy_recorded, handed>>

VARIABLES
    \* ---- EnvSampler.test (env_sampler.py:290-311)
    get_test_env,      \* whether get_test_env was given: _test_env is an env of its own
    mode,              \* the mode the last explore() or exploit() put the policies in
    tpc,               \* position of the test call: "idle" or "loop"
    test_terminal,     \* terminal, local of test
    test_steps,        \* the steps the test call has made
    tested             \* the return values of the test calls since the last sample call

tvars == <<get_test_env, mode, tpc, test_terminal, test_steps, tested>>

svars == <<reward_eval_delay, tick, state, step_index, terminal, transition_cache,
           pc, steps_to_go, starting_step_index, result, recorded, tracker>>

vars == <<svars, dvars, evars, lvars, avars, tvars, cvars>>

\* ------------------------------------------------------------ EnvSampler

NoResult == [called |-> FALSE, step_range |-> <<0, 0>>, end_of_episode |-> FALSE]

\* get_state(env, event): a state for every agent involved in the decision
\* point; all of them were computed at decision point dp.
StateAt(S, dp) == [agents |-> S, dp |-> dp]

\* The tuple appended to the cache: (state, action, env_actions, tick).  The
\* action and env_actions were chosen at the decision point of the state and
\* travel with it.
Transition(dp, t) == [state |-> dp, tick |-> t]

\* Mutants of the loop condition: the age taken from the current tick alone,
\* the end of the episode forgotten, the age compared strictly.
EligibleNoAge(rec) == terminal \/ tick >= reward_eval_delay
EligibleNoTerminal(rec) == tick - rec.tick >= reward_eval_delay
EligibleStrict(rec) == terminal \/ tick - rec.tick > reward_eval_delay

\* The loop condition of the flush: terminal or old enough.
Eligible(rec) == terminal \/ tick - rec.tick >= reward_eval_delay

\* The arguments of one record_transition call.
Completed(rec, rest) ==
    [state |-> rec.state, tick |-> rec.tick,
     next_state |-> IF rest # <<>> THEN [kind |-> "queued", dp |-> Head(rest).state,
                                         agents |-> {}]
                    ELSE [kind |-> "current", dp |-> state.dp, agents |-> state.agents],
     terminal |-> (rest = <<>>) /\ terminal]

Front(q) == SubSeq(q, 1, Len(q) - 1)
Last(q) == q[Len(q)]

\* Mutants of the flush: pop() for popleft(), and "all remaining events except
\* the last" as the comment above the loop words it.
RECURSIVE FlushLifo(_, _)
FlushLifo(cache, out) ==
    IF cache # <<>> /\ Eligible(Head(cache))
    THEN FlushLifo(Front(cache), Append(out, Completed(Last(cache), Front(cache))))
    ELSE <<out, cache>>

RECURSIVE FlushExceptLast(_, _)
FlushExceptLast(cache, out) ==
    IF Len(cache) > 1 /\ Eligible(Head(cache))
    THEN FlushExceptLast(Tail(cache), Append(out, Completed(Head(cache), Tail(cache))))
    ELSE <<out, cache>>

\* while cache and (...): popleft, record.  <<calls made, what is left>>
RECURSIVE Flush(_, _)
Flush(cache, out) ==
    IF cache # <<>> /\ Eligible(Head(cache))
    THEN Flush(Tail(cache), Append(out, Completed(Head(cache), Tail(cache))))
    ELSE <<out, cache>>

\* self.tracker = {}
EmptyTracker == 0

\* Mutant of the reset: the tracker is not cleared.
KeptTracker == tracker
\* self.tracker.clear()
ClearedTracker == EmptyTracker

\* The transitions a flush passes to post_step, which writes each of them to
\* the tracker.
RECURSIVE Posted(_, _)
Posted(S, cache) ==
    IF S = {} THEN 0
    ELSE LET a == CHOOSE x \in S : TRUE
         IN  Len(Flush(cache[a], <<>>)[1]) + Posted(S \ {a}, cache)

\* Mutant of the loop condition: the budget is not looked at.
LoopConditionNoBudget == ~terminal

\* while not self._terminal and steps_to_go > 0
LoopCondition == ~terminal /\ steps_to_go # 0

SInit ==
    /\ reward_eval_delay \in 0..MaxDelay
    /\ tick = 0
    /\ state = NoState
    /\ step_index = 0
    /\ terminal = TRUE
    /\ transition_cache = [a \in Agents |-> <<>>]
    /\ pc = "idle"
    /\ steps_to_go = 0
    /\ starting_step_index = 0
    /\ result = NoResult
    /\ recorded = [a \in Agents |-> <<>>]
    /\ tracker = EmptyTracker

\* The modes explore() and exploit() put the policies in.
EXPLORE == "explore"
EXPLOIT == "exploit"

\* Mutant of the first index of the range: the index of the step before.
StartingStepIndexSame(index) == index

\* starting_step_index = self._step_index + 1
StartingStepIndex(index) == index + 1

\* sample, up to the loop: reset the simulation if the last call ended the
\* episode, then set the budget.
SampleBegin(num_steps) ==
    /\ pc = "idle"
    /\ tpc = "idle"
    /\ IF terminal
       THEN \E t0 \in {0}, S \in (SUBSET Agents) \ {{}} :
              /\ tick' = t0
              /\ step_index' = 0
              /\ transition_cache' = [a \in Agents |-> <<>>]
              /\ recorded' = [a \in Agents |-> <<>>]
              /\ tracker' = ClearedTracker
              /\ terminal' = FALSE
              /\ state' = StateAt(S, 1)
       ELSE UNCHANGED <<tick, step_index, transition_cache, recorded, tracker, terminal,
                        state>>
    /\ starting_step_index' = StartingStepIndex(step_index')
    /\ steps_to_go' = num_steps
    /\ pc' = "loop"
    /\ mode' = EXPLORE
    /\ tested' = <<>>
    /\ UNCHANGED <<reward_eval_delay, result>>
    /\ UNCHANGED <<get_test_env, tpc, test_terminal, test_steps>>
    /\ UNCHANGED <<dvars, evars, lvars, avars, cvars>>

\* One iteration of the while loop.
SampleStep ==
    /\ pc = "loop"
    /\ LoopCondition
    /\ step_index < MaxSteps
    /\ transition_cache' =
          [a \in Agents |-> IF a \in state.agents
                            THEN Append(transition_cache[a], Transition(state.dp, tick))
                            ELSE transition_cache[a]]
    /\ \E j \in Jumps, term \in BOOLEAN, S \in (SUBSET Agents) \ {{}} :
          /\ tick + j <= MaxTick
          /\ tick' = tick + j
          /\ terminal' = term
          /\ state' = IF term THEN NoState ELSE StateAt(S, step_index + 2)
          \* no state is computed at the end of the episode
          /\ term => S = Agents
    /\ step_index' = step_index + 1
    /\ steps_to_go' = IF steps_to_go = Unbounded THEN Unbounded ELSE steps_to_go - 1
    /\ UNCHANGED <<reward_eval_delay, pc, starting_step_index, result, recorded, tracker>>
    /\ UNCHANGED <<dvars, evars, lvars, avars, tvars, cvars>>

\* The flush of every agent's cache, and the return.
SampleFlush ==
    /\ pc = "loop"
    /\ ~LoopCondition
    /\ transition_cache' = [a \in Agents |-> Flush(transition_cache[a], <<>>)[2]]
    /\ recorded' = [a \in Agents |-> recorded[a] \o Flush(transition_cache[a], <<>>)[1]]
    /\ tracker' = tracker + Posted(Agents, transition_cache)
    /\ result' = [called |-> TRUE, step_range |-> <<starting_step_index, step_index>>,
                  end_of_episode |-> terminal]
    /\ pc' = "idle"
    /\ steps_to_go' = 0
    /\ starting_step_index' = 0
    /\ UNCHANGED <<reward_eval_delay, tick, state, step_index, terminal>>
    /\ UNCHANGED <<dvars, evars, lvars, avars, tvars, cvars>>

\* ------------------------------------------- DistributedRolloutManager

SAMPLE == "sample"
SAMPLE_DONE == "sample_done"

\* extra_recv_timeout = None
NoTimeout == -1
\* extra_recv_timeout in milliseconds, as the docstring gives it
TimeoutMs == 100

NoCall == [episode |-> 0, segment |-> 0, version |-> 0]

\* defaultdict(list)
EmptyInfoLists == [p \in Policies |-> <<>>]

\* Mutant of the buffers of a call: the lists of the call before are kept.
KeptInfoLists == info_list_by_policy
\* info_list_by_policy, ... = defaultdict(list), ...
FreshInfoLists == EmptyInfoLists

\* The experience (and the tracker) a worker made for the request of a call.
Token(msg) == [worker |-> msg.worker, call |-> msg.call]

\* ManagerEndpoint.receive(timeout=...) gives up after the timeout; without
\* one it blocks until a message arrives.
CanTimeOut(timeout) == timeout # NoTimeout

\* Mutants of _handle_worker_result: the episode/segment test left out, the
\* staleness test left out.
HandleNoRoundCheck(msg, ep, segment, version) ==
    IF msg.type # SAMPLE_DONE THEN [accepted |-> FALSE, info |-> {}]
    ELSE IF version - msg.version > max_lag THEN [accepted |-> FALSE, info |-> {}]
    ELSE [accepted |-> TRUE, info |-> msg.rollout_info]

HandleNoLagCheck(msg, ep, segment, version) ==
    IF msg.type # SAMPLE_DONE THEN [accepted |-> FALSE, info |-> {}]
    ELSE IF msg.episode = ep /\ msg.segment = segment
         THEN [accepted |-> TRUE, info |-> msg.rollout_info]
    ELSE [accepted |-> FALSE, info |-> {}]

\* _handle_worker_result: accepted is "the message is what we expect" (the
\* branch that sets episode_complete); info is the rollout_info returned, and
\* None, None is [accepted |-> FALSE, info |-> {}].
HandleWorkerResult(msg, ep, segment, version) ==
    IF msg.type # SAMPLE_DONE THEN [accepted |-> FALSE, info |-> {}]
    ELSE IF version - msg.version > max_lag THEN [accepted |-> FALSE, info |-> {}]
    ELSE IF msg.episode = ep /\ msg.segment = segment
         THEN [accepted |-> TRUE, info |-> msg.rollout_info]
    ELSE [accepted |-> FALSE, info |-> {}]

\* if info_by_policy: the truth value of what _handle_worker_result returned
Truthy(h) == h.accepted /\ h.info # {}

\* Mutant of the end of the quorum loop: one reply too early.
QuorumReachedEarly(n) == n + 1 = min_finished_workers
\* if num_finishes == self._min_finished_workers: break
QuorumReached(n) == n = min_finished_workers

DInit ==
    /\ min_finished_workers \in 1..NumWorkers
    /\ max_extra_recv_tries \in Tries
    /\ extra_recv_timeout \in {NoTimeout, TimeoutMs}
    \* the timeout is read by the extra receives only
    /\ max_extra_recv_tries = 0 => extra_recv_timeout = NoTimeout
    /\ max_lag \in Lags
    /\ rollout_policies \in PolicySets
    /\ episode_complete = FALSE
    /\ exploration_step = FALSE
    /\ cpc = "idle"
    /\ cur = NoCall
    /\ num_finishes = 0
    /\ info_list_by_policy = EmptyInfoLists
    /\ trackers = <<>>
    /\ tries = 0
    /\ received = <<>>
    /\ ncalls = 0
    /\ inbox = [w \in Workers |-> <<>>]
    /\ chan = [w \in Workers |-> <<>>]

\* collect, up to the quorum loop: one request to every worker.
Collect(ep, segment, version) ==
    /\ dctor.status = "ready" /\ cpc = "idle" /\ epc = "idle"
    /\ ncalls + 1 \in Calls
    /\ ncalls = 0 => <<ep, segment, version>> = FirstCall
    /\ inbox' = [w \in Workers |->
                   Append(inbox[w], [type |-> SAMPLE, episode |-> ep, segment |-> segment,
                                     num_steps |-> self_num_steps, version |-> version,
                                     exploration_step |-> exploration_step,
                                     call |-> ncalls + 1])]
    /\ exploration_step' = FALSE
    /\ cur' = [episode |-> ep, segment |-> segment, version |-> version]
    /\ info_list_by_policy' = FreshInfoLists
    /\ trackers' = <<>>
    /\ num_finishes' = 0
    /\ tries' = 0
    /\ received' = <<>>
    /\ ncalls' = ncalls + 1
    /\ cpc' = "quorum"
    /\ UNCHANGED <<min_finished_workers, max_extra_recv_tries, extra_recv_timeout, max_lag,
                   episode_complete, rollout_policies, chan>>
    /\ UNCHANGED <<svars, lvars, evars, avars, tvars, cvars>>

\* What both loops do with a received message.
Absorb(msg) ==
    LET h == HandleWorkerResult(msg, cur.episode, cur.segment, cur.version) IN
    /\ episode_complete' = IF h.accepted THEN msg.end_of_episode ELSE episode_complete
    /\ num_finishes' = IF Truthy(h) THEN num_finishes + 1 ELSE num_finishes
    /\ info_list_by_policy' =
          [p \in Policies |-> IF Truthy(h) /\ p \in h.info
                              THEN Append(info_list_by_policy[p], Token(msg))
                              ELSE info_list_by_policy[p]]
    /\ trackers' = IF Truthy(h) THEN Append(trackers, Token(msg)) ELSE trackers
    /\ received' = Append(received, msg)

\* One iteration of the quorum loop: a blocking receive.
QuorumRecv(w) ==
    /\ cpc = "quorum"
    /\ chan[w] # <<>>
    /\ Absorb(Head(chan[w]))
    /\ chan' = [chan EXCEPT ![w] = Tail(@)]
    /\ cpc' = IF QuorumReached(num_finishes') THEN "extra" ELSE "quorum"
    /\ UNCHANGED <<min_finished_workers, max_extra_recv_tries, extra_recv_timeout, max_lag,
                   exploration_step, cur, tries, ncalls, rollout_policies, inbox>>
    /\ UNCHANGED <<svars, lvars, evars, avars, tvars, cvars>>

\* One iteration of the extra-receive loop in which a message arrived.
ExtraRecv(w) ==
    /\ cpc = "extra"
    /\ tries < max_extra_recv_tries
    /\ chan[w] # <<>>
    /\ Absorb(Head(chan[w]))
    /\ chan' = [chan EXCEPT ![w] = Tail(@)]
    /\ tries' = tries + 1
    /\ cpc' = IF num_finishes' = NumWorkers THEN "wrapup" ELSE "extra"
    /\ UNCHANGED <<min_finished_workers, max_extra_recv_tries, extra_recv_timeout, max_lag,
                   exploration_step, cur, ncalls, rollout_policies, inbox>>
    /\ UNCHANGED <<svars, lvars, evars, avars, tvars, cvars>>

\* One iteration of the extra-receive loop in which the receive timed out.
ExtraTimeout ==
    /\ cpc = "extra"
    /\ tries < max_extra_recv_tries
    /\ \A w \in Workers : chan[w] = <<>>
    /\ CanTimeOut(extra_recv_timeout)
    /\ tries' = tries + 1
    /\ UNCHANGED <<min_finished_workers, max_extra_recv_tries, extra_recv_timeout, max_lag,
                   episode_complete, exploration_step, cpc, cur, num_finishes,
                   info_list_by_policy, trackers, received, ncalls, rollout_policies,
                   inbox, chan>>
    /\ UNCHANGED <<svars, lvars, evars, avars, tvars, cvars>>

\* The end of collect.
CollectReturn ==
    /\ \/ cpc = "wrapup"
       \/ cpc = "extra" /\ tries >= max_extra_recv_tries
    /\ exploration_step' = IF episode_complete THEN TRUE ELSE exploration_step
    /\ cpc' = "idle"
    /\ UNCHANGED <<min_finished_workers, max_extra_recv_tries, extra_recv_timeout, max_lag,
                   episode_complete, cur, num_finishes, info_list_by_policy, trackers, tries,
                   received, ncalls, rollout_policies, inbox, chan>>
    /\ UNCHANGED <<svars, lvars, evars, avars, tvars, cvars>>

\* Mutant of the reply: it names the first round, whatever the request says.
ReplyRoundFirst(msg) == [episode |-> FirstCall[1], segment |-> FirstCall[2],
                         version |-> FirstCall[3]]
\* MsgKey.EPISODE, MsgKey.SEGMENT and MsgKey.VERSION of return_info
ReplyRound(msg) == [episode |-> msg.episode, segment |-> msg.segment,
                    version |-> msg.version]

\* A worker handles a SAMPLE request and replies SAMPLE_DONE, echoing the
\* request's episode, segment and version.
WorkerSample(w) ==
    /\ inbox[w] # <<>>
    /\ Head(inbox[w]).type = SAMPLE
    /\ \E eoe \in BOOLEAN :
          chan' = [chan EXCEPT ![w] =
                     Append(@, [type |-> SAMPLE_DONE, worker |-> w,
                                episode |-> ReplyRound(Head(inbox[w])).episode,
                                segment |-> ReplyRound(Head(inbox[w])).segment,
                                version |-> ReplyRound(Head(inbox[w])).version,
                                rollout_info |-> rollout_policies,
                                end_of_episode |-> eoe,
                                call |-> Head(inbox[w]).call])]
    /\ inbox' = [inbox EXCEPT ![w] = Tail(@)]
    /\ UNCHANGED <<min_finished_workers, max_extra_recv_tries, extra_recv_timeout, max_lag,
                   episode_complete, exploration_step, cpc, cur, num_finishes,
                   info_list_by_policy, trackers, tries, received, ncalls, rollout_policies>>
    /\ UNCHANGED <<svars, lvars, evars, avars, tvars, cvars>>

\* The coordinator's own steps while a collect call is under way.
CollectProgress ==
    \/ \E w \in Workers : QuorumRecv(w)
    \/ \E w \in Workers : ExtraRecv(w)
    \/ ExtraTimeout
    \/ CollectReturn

\* ------------- DistributedRolloutManager: construction and evaluate

EVAL == "eval"
TEST == "test"
TEST_DONE == "test_done"

\* min_finished_workers = None, max_extra_recv_tries = None
NoArg == -1

\* Mutants of the defaults: a quorum of one, an extra try per worker.
DefaultMinOne(arg) == IF arg = NoArg THEN 1 ELSE arg
DefaultTriesAll(arg, min) == IF arg = NoArg THEN NumWorkers ELSE arg

\* if min_finished_workers is None: min_finished_workers = self._num_workers
DefaultMin(arg) == IF arg = NoArg THEN NumWorkers ELSE arg
\* if max_extra_recv_tries is None: ... = self._num_workers - self._min_finished_workers
DefaultTries(arg, min) == IF arg = NoArg THEN NumWorkers - min ELSE arg

\* The one test that opens __init__.
RemoteArgsError(a) == a.num_eval_workers > NumWorkers

\* The arguments of the constructor calls explored.
RemoteArgs ==
    [num_steps : StepArgs, min_finished_workers : {NoArg, 1},
     max_extra_recv_tries : {NoArg, 0}, extra_recv_timeout : {NoTimeout, TimeoutMs},
     max_lag : {0}, num_eval_workers : 1..(NumWorkers + 1), status : {"new"}]
DefaultArgs ==
    [num_steps : {Unbounded}, min_finished_workers : {NoArg} \cup (1..NumWorkers),
     max_extra_recv_tries : {NoArg} \cup Tries,
     extra_recv_timeout : {NoTimeout, TimeoutMs},
     max_lag : {0}, num_eval_workers : {1}, status : {"new"}]

\* The manager before its construction with arguments of the set args.
DNew(args) ==
    /\ dctor \in args
    /\ rollout_policies \in PolicySets \ {{}}
    /\ self_num_steps = 0
    /\ num_eval_workers = 0
    /\ min_finished_workers = 0
    /\ max_extra_recv_tries = 0
    /\ extra_recv_timeout = NoTimeout
    /\ max_lag = 0
    /\ episode_complete = FALSE
    /\ exploration_step = FALSE
    /\ cpc = "idle"
    /\ cur = NoCall
    /\ num_finishes = 0
    /\ info_list_by_policy = EmptyInfoLists
    /\ trackers = <<>>
    /\ tries = 0
    /\ received = <<>>
    /\ ncalls = 0
    /\ inbox = [w \in Workers |-> <<>>]
    /\ chan = [w \in Workers |-> <<>>]
    /\ epc = "idle"
    /\ eval_ep = 0
    /\ eval_left = 0
    /\ eval_finishes = 0
    /\ eval_trackers = <<>>
    /\ eval_received = <<>>
    /\ ecalls = 0

\* __init__
RemoteConstruct ==
    /\ dctor.status = "new"
    /\ IF RemoteArgsError(dctor)
       THEN /\ dctor' = [dctor EXCEPT !.status = "raised"]
            /\ UNCHANGED <<self_num_steps, num_eval_workers, min_finished_workers,
                           max_extra_recv_tries, extra_recv_timeout, max_lag>>
       ELSE /\ dctor' = [dctor EXCEPT !.status = "ready"]
            /\ self_num_steps' = dctor.num_steps
            /\ min_finished_workers' = DefaultMin(dctor.min_finished_workers)
            /\ max_extra_recv_tries' =
                  DefaultTries(dctor.max_extra_recv_tries,
                               DefaultMin(dctor.min_finished_workers))
            /\ extra_recv_timeout' = dctor.extra_recv_timeout
            /\ max_lag' = dctor.max_lag
            /\ num_eval_workers' = dctor.num_eval_workers
    /\ UNCHANGED <<episode_complete, exploration_step, cpc, cur, num_finishes,
                   info_list_by_policy, trackers, tries, received, ncalls,
                   rollout_policies, inbox, chan>>
    /\ UNCHANGED <<epc, eval_ep, eval_left, eval_finishes, eval_trackers, eval_received,
                   ecalls>>
    /\ UNCHANGED <<svars, lvars, avars, tvars, cvars>>

\* evaluate, up to the receive loop: one request to every worker.  Of the
\* workers drawn by choices only their number is used.
Evaluate(ep) ==
    /\ dctor.status = "ready" /\ cpc = "idle" /\ epc = "idle"
    /\ ecalls + 1 \in EvalCalls
    /\ inbox' = [w \in Workers |->
                   Append(inbox[w], [type |-> EVAL, episode |-> ep, segment |-> 0,
                                     num_steps |-> 0, version |-> 0,
                                     exploration_step |-> FALSE, call |-> 0])]
    /\ eval_ep' = ep
    /\ eval_left' = num_eval_workers
    /\ eval_finishes' = 0
    /\ eval_trackers' = <<>>
    /\ eval_received' = <<>>
    /\ ecalls' = ecalls + 1
    /\ epc' = "recv"
    /\ UNCHANGED <<dctor, self_num_steps, num_eval_workers>>
    /\ UNCHANGED <<min_finished_workers, max_extra_recv_tries, extra_recv_timeout, max_lag,
                   episode_complete, exploration_step, cpc, cur, num_finishes,
                   info_list_by_policy, trackers, tries, received, ncalls,
                   rollout_policies, chan>>
    /\ UNCHANGED <<svars, lvars, avars, tvars, cvars>>

\* if result["type"] != MsgTag.TEST_DONE or result["episode"] != ep: ... continue
EvalIgnored(msg, ep) == msg.type # TEST_DONE \/ msg.episode # ep

\* One iteration of the receive loop of evaluate, and the end of evaluate when
\* the loop ends.
EvaluateRecv(w) ==
    /\ epc = "recv"
    /\ chan[w] # <<>>
    /\ LET msg == Head(chan[w])
           finishes == IF EvalIgnored(msg, eval_ep) THEN eval_finishes
                       ELSE eval_finishes + 1
       IN  /\ eval_trackers' = IF EvalIgnored(msg, eval_ep) THEN eval_trackers
                               ELSE Append(eval_trackers, Token(msg))
           /\ eval_finishes' = finishes
           /\ eval_received' = Append(eval_received, msg)
           /\ epc' = IF \/ eval_left = 1
                        \/ ~EvalIgnored(msg, eval_ep) /\ finishes = num_eval_workers
                     THEN "idle" ELSE "recv"
    /\ eval_left' = eval_left - 1
    /\ chan' = [chan EXCEPT ![w] = Tail(@)]
    /\ UNCHANGED <<dctor, self_num_steps, num_eval_workers, eval_ep, ecalls>>
    /\ UNCHANGED <<min_finished_workers, max_extra_recv_tries, extra_recv_timeout, max_lag,
                   episode_complete, exploration_step, cpc, cur, num_finishes,
                   info_list_by_policy, trackers, tries, received, ncalls,
                   rollout_policies, inbox>>
    /\ UNCHANGED <<svars, lvars, avars, tvars, cvars>>

\* A worker handles a message that is no SAMPLE request: a TEST request is
\* answered with TEST_DONE and the request's episode, a message of any other
\* tag is dropped and the loop goes on to the next message.
WorkerOther(w) ==
    /\ inbox[w] # <<>>
    /\ Head(inbox[w]).type # SAMPLE
    /\ chan' = IF Head(inbox[w]).type = TEST
               THEN [chan EXCEPT ![w] =
                       Append(@, [type |-> TEST_DONE, worker |-> w,
                                  episode |-> Head(inbox[w]).episode,
                                  segment |-> 0, version |-> 0, rollout_info |-> {},
                                  end_of_episode |-> FALSE, call |-> 0])]
               ELSE chan
    /\ inbox' = [inbox EXCEPT ![w] = Tail(@)]
    /\ UNCHANGED <<min_finished_workers, max_extra_recv_tries, extra_recv_timeout, max_lag,
                   episode_complete, exploration_step, cpc, cur, num_finishes,
                   info_list_by_policy, trackers, tries, received, ncalls, rollout_policies>>
    /\ UNCHANGED <<svars, lvars, evars, avars, tvars, cvars>>

\* A manager constructed with its quorum and extra tries given explicitly,
\* before its first call.
EReady ==
    /\ dctor = [num_steps |-> Unbounded, min_finished_workers |-> min_finished_workers,
                max_extra_recv_tries |-> max_extra_recv_tries,
                extra_recv_timeout |-> extra_recv_timeout, max_lag |-> max_lag,
                num_eval_workers |-> 1, status |-> "ready"]
    /\ self_num_steps = Unbounded
    /\ num_eval_workers = 1
    /\ epc = "idle"
    /\ eval_ep = 0
    /\ eval_left = 0
    /\ eval_finishes = 0
    /\ eval_trackers = <<>>
    /\ eval_received = <<>>
    /\ ecalls = 0

\* No DistributedRolloutManager in this process.
DIdle ==
    /\ min_finished_workers = NumWorkers
    /\ max_extra_recv_tries = 0
    /\ extra_recv_timeout = NoTimeout
    /\ max_lag = 0
    /\ rollout_policies = {}
    /\ episode_complete = FALSE
    /\ exploration_step = FALSE
    /\ cpc = "idle"
    /\ cur = NoCall
    /\ num_finishes = 0
    /\ info_list_by_policy = EmptyInfoLists
    /\ trackers = <<>>
    /\ tries = 0
    /\ received = <<>>
    /\ ncalls = 0
    /\ inbox = [w \in Workers |-> <<>>]
    /\ chan = [w \in Workers |-> <<>>]
    /\ dctor = [num_steps |-> Unbounded, min_finished_workers |-> NoArg,
                max_extra_recv_tries |-> NoArg, extra_recv_timeout |-> NoTimeout,
                max_lag |-> 0, num_eval_workers |-> 1, status |-> "new"]
    /\ self_num_steps = 0
    /\ num_eval_workers = 0
    /\ epc = "idle"
    /\ eval_ep = 0
    /\ eval_left = 0
    /\ eval_finishes = 0
    /\ eval_trackers = <<>>
    /\ eval_received = <<>>
    /\ ecalls = 0

\* No EnvSampler in this process.
SIdle ==
    /\ reward_eval_delay = 0
    /\ tick = 0
    /\ state = NoState
    /\ step_index = 0
    /\ terminal = TRUE
    /\ transition_cache = [a \in Agents |-> <<>>]
    /\ pc = "idle"
    /\ steps_to_go = 0
    /\ starting_step_index = 0
    /\ result = NoResult
    /\ recorded = [a \in Agents |-> <<>>]
    /\ tracker = EmptyTracker

\* ------------------------------------------------ SimpleRolloutManager

Pool == 1..NumWorkers

\* The keys of the dict sample returns, and those of a worker's replies.
SampleKeys == {"rollout_info", "step_range", "tracker", "end_of_episode",
               "exploration_params"}
Keys(reply) == IF reply.kind = "sample" THEN SampleKeys \cup {"worker_index"}
                ELSE {"worker_id", "tracker"}
\* The key the receive loop of collect reads the end of the episode from.
EpisodeEndKey == "episode_end"

\* What sample may return as end_of_episode: with the unbounded budget the
\* loop ends only when the simulation is terminal.
EndOf(num_steps) == IF num_steps = Unbounded THEN {TRUE} ELSE BOOLEAN

NoManager == [num_steps |-> 0, exploration_step |-> FALSE, parallelism |-> 0,
              eval_parallelism |-> 0, episode_complete |-> FALSE, env_sampler |-> FALSE]
NoOutcome == [op |-> "none", raised |-> "none"]
Returned(op) == [op |-> op, raised |-> "none"]
Raised(op, error) == [op |-> op, raised |-> error]

\* Mutant of the validation: the test of eval_parallelism left out.
ArgsErrorNoEval(a) ==
    \/ a.num_steps = 0 \/ a.num_steps < -1
    \/ a.parallelism < 1

\* The three tests that open __init__.
ArgsError(a) ==
    \/ a.num_steps = 0 \/ a.num_steps < -1
    \/ a.parallelism < 1
    \/ a.eval_parallelism > a.parallelism

LInit ==
    /\ ctor \in [num_steps : StepArgs, parallelism : 0..NumWorkers,
                 eval_parallelism : 1..NumWorkers, status : {"new"}]
    /\ sample_policies \in PolicySets
    /\ mgr = NoManager
    /\ worker_self = NoManager
    /\ started = {}
    /\ to_worker = [w \in Pool |-> <<>>]
    /\ to_manager = [w \in Pool |-> <<>>]
    /\ spc = "idle"
    /\ conn_index = 0
    /\ info_by_policy = EmptyInfoLists
    /\ strackers = <<>>
    /\ outcome = NoOutcome
    /\ scalls = 0
    /\ given = <<>>
    /\ prev_complete = FALSE
    /\ contacted = {}
    /\ ended = [w \in Pool |-> FALSE]

\* __init__: the validation, the fields, and the sampler or the worker
\* processes.
SimpleConstruct ==
    /\ ctor.status = "new"
    /\ IF ArgsError(ctor)
       THEN /\ ctor' = [ctor EXCEPT !.status = "raised"]
            /\ UNCHANGED <<mgr, worker_self, started>>
       ELSE LET self == [num_steps |-> IF ctor.num_steps > 0 THEN ctor.num_steps
                                       ELSE Unbounded,
                         exploration_step |-> FALSE,
                         parallelism |-> ctor.parallelism,
                         eval_parallelism |-> ctor.eval_parallelism,
                         episode_complete |-> FALSE,
                         env_sampler |-> (ctor.parallelism = 1)]
            IN  /\ ctor' = [ctor EXCEPT !.status = "ready"]
                /\ mgr' = self
                /\ worker_self' = IF ctor.parallelism = 1 THEN worker_self ELSE self
                /\ started' = IF ctor.parallelism = 1 THEN {} ELSE 1..ctor.parallelism
    /\ UNCHANGED <<to_worker, to_manager, spc, conn_index, info_by_policy, strackers,
                   outcome, scalls, given, prev_complete, contacted, sample_policies, ended>>
    /\ UNCHANGED <<svars, dvars, evars, avars, tvars, cvars>>

\* The experience and the tracker of one sample or test call of a sampler.
SToken(w, call) == [worker |-> w, call |-> call]

\* collect: with parallelism 1 the whole call, the sampler being called in
\* place; otherwise up to the receive loop.
SimpleCollect ==
    /\ ctor.status = "ready" /\ spc = "idle"
    /\ scalls + 1 \in SimpleCalls
    /\ scalls' = scalls + 1
    /\ prev_complete' = mgr.episode_complete
    /\ IF mgr.parallelism = 1
       THEN \E eoe \in EndOf(mgr.num_steps) :
              /\ given' = <<mgr.exploration_step>>
              /\ info_by_policy' = [p \in Policies |->
                                      IF p \in sample_policies
                                      THEN <<SToken(1, scalls + 1)>> ELSE <<>>]
              /\ strackers' = <<SToken(1, scalls + 1)>>
              /\ mgr' = [mgr EXCEPT !.episode_complete = eoe,
                                    !.exploration_step = IF eoe THEN TRUE ELSE @]
              /\ outcome' = Returned("collect")
              /\ UNCHANGED <<to_worker, spc, conn_index>>
       ELSE /\ to_worker' = [w \in Pool |->
                               IF w \in 1..mgr.parallelism
                               THEN Append(to_worker[w],
                                           [type |-> "sample",
                                            exploration_step |-> mgr.exploration_step,
                                            call |-> scalls + 1])
                               ELSE to_worker[w]]
            /\ mgr' = [mgr EXCEPT !.exploration_step = FALSE]
            /\ given' = <<>>
            /\ info_by_policy' = EmptyInfoLists
            /\ strackers' = <<>>
            /\ conn_index' = 1
            /\ spc' = "collect"
            /\ UNCHANGED outcome
    /\ UNCHANGED <<ctor, worker_self, started, to_manager, contacted, sample_policies, ended>>
    /\ UNCHANGED <<svars, dvars, evars, avars, tvars, cvars>>

\* One iteration of the receive loop of collect, and the end of collect after
\* the last one.  A key the reply does not have raises KeyError.
SimpleCollectRecv ==
    /\ spc = "collect"
    /\ to_manager[conn_index] # <<>>
    /\ LET reply == Head(to_manager[conn_index])
           token == SToken(reply.worker, reply.call)
       IN  IF "rollout_info" \notin Keys(reply)
           THEN /\ outcome' = Raised("collect", "KeyError")
                /\ spc' = "idle"
                /\ UNCHANGED <<info_by_policy, strackers, mgr, conn_index>>
           ELSE /\ info_by_policy' = [p \in Policies |->
                                        IF p \in reply.rollout_info
                                        THEN Append(info_by_policy[p], token)
                                        ELSE info_by_policy[p]]
                /\ strackers' = Append(strackers, token)
                /\ IF EpisodeEndKey \notin Keys(reply)
                   THEN /\ outcome' = Raised("collect", "KeyError")
                        /\ spc' = "idle"
                        /\ UNCHANGED <<mgr, conn_index>>
                   ELSE IF conn_index < mgr.parallelism
                   THEN /\ mgr' = [mgr EXCEPT !.episode_complete = reply.end_of_episode]
                        /\ conn_index' = conn_index + 1
                        /\ UNCHANGED <<outcome, spc>>
                   ELSE /\ mgr' = [mgr EXCEPT
                                     !.episode_complete = reply.end_of_episode,
                                     !.exploration_step =
                                         IF reply.end_of_episode THEN TRUE ELSE @]
                        /\ outcome' = Returned("collect")
                        /\ spc' = "idle"
                        /\ UNCHANGED conn_index
    /\ to_manager' = [to_manager EXCEPT ![conn_index] = Tail(@)]
    /\ UNCHANGED <<ctor, worker_self, started, to_worker, scalls, given, prev_complete,
                   contacted, sample_policies, ended>>
    /\ UNCHANGED <<svars, dvars, evars, avars, tvars, cvars>>

\* The requests choices(self._manager_ends, k) leads to: one to a worker for
\* each time it was chosen.
RECURSIVE TestRequests(_, _, _)
TestRequests(chosen, w, call) ==
    IF chosen = <<>> THEN <<>>
    ELSE (IF Head(chosen) = w THEN <<[type |-> "test", exploration_step |-> FALSE,
                                      call |-> call]>>
          ELSE <<>>) \o TestRequests(Tail(chosen), w, call)

\* evaluate: with eval_parallelism 1 the whole call, made on the manager's own
\* sampler; otherwise up to the receive loop.
SimpleEvaluate ==
    /\ ctor.status = "ready" /\ spc = "idle"
    /\ scalls + 1 \in SimpleCalls
    /\ scalls' = scalls + 1
    /\ IF mgr.eval_parallelism = 1
       THEN /\ IF mgr.env_sampler
               THEN /\ strackers' = <<SToken(1, scalls + 1)>>
                    /\ outcome' = Returned("evaluate")
               ELSE /\ strackers' = <<>>
                    /\ outcome' = Raised("evaluate", "AttributeError")
            /\ UNCHANGED <<to_worker, spc, conn_index, contacted>>
       ELSE \E chosen \in [1..mgr.eval_parallelism -> 1..mgr.parallelism] :
              /\ to_worker' = [w \in Pool |->
                                 to_worker[w] \o TestRequests(chosen, w, scalls + 1)]
              /\ contacted' = {chosen[i] : i \in 1..mgr.eval_parallelism}
              /\ strackers' = <<>>
              /\ conn_index' = 1
              /\ spc' = "evaluate"
              /\ UNCHANGED outcome
    /\ UNCHANGED <<ctor, mgr, worker_self, started, to_manager, info_by_policy, given,
                   prev_complete, sample_policies, ended>>
    /\ UNCHANGED <<svars, dvars, evars, avars, tvars, cvars>>

\* One iteration of the receive loop of evaluate, and the end of evaluate
\* after the last one.
SimpleEvaluateRecv ==
    /\ spc = "evaluate"
    /\ to_manager[conn_index] # <<>>
    /\ LET reply == Head(to_manager[conn_index])
       IN  IF "tracker" \notin Keys(reply)
           THEN /\ outcome' = Raised("evaluate", "KeyError")
                /\ spc' = "idle"
                /\ UNCHANGED <<strackers, conn_index>>
           ELSE /\ strackers' = Append(strackers, SToken(reply.worker, reply.call))
                /\ IF conn_index < mgr.parallelism
                   THEN /\ conn_index' = conn_index + 1
                        /\ UNCHANGED <<outcome, spc>>
                   ELSE /\ outcome' = Returned("evaluate")
                        /\ spc' = "idle"
                        /\ UNCHANGED conn_index
    /\ to_manager' = [to_manager EXCEPT ![conn_index] = Tail(@)]
    /\ UNCHANGED <<ctor, mgr, worker_self, started, to_worker, info_by_policy, scalls,
                   given, prev_complete, contacted, sample_policies, ended>>
    /\ UNCHANGED <<svars, dvars, evars, avars, tvars, cvars>>

\* One iteration of the loop of _rollout_worker: a request is handled and
\* answered.  The budget and the exploration_step flag of the sample call are
\* read from the worker's copy of the manager.
RolloutWorker(w) ==
    /\ w \in started
    /\ to_worker[w] # <<>>
    /\ LET msg == Head(to_worker[w])
       IN  IF msg.type = "sample"
           THEN \E eoe \in EndOf(worker_self.num_steps) :
                  /\ to_manager' = [to_manager EXCEPT ![w] =
                        Append(@, [kind |-> "sample", worker |-> w, call |-> msg.call,
                                   rollout_info |-> sample_policies,
                                   end_of_episode |-> eoe])]
                  /\ given' = Append(given, worker_self.exploration_step)
                  /\ ended' = [ended EXCEPT ![w] = eoe]
           ELSE /\ to_manager' = [to_manager EXCEPT ![w] =
                        Append(@, [kind |-> "test", worker |-> w, call |-> msg.call,
                                   rollout_info |-> {}, end_of_episode |-> FALSE])]
                /\ UNCHANGED <<given, ended>>
    /\ to_worker' = [to_worker EXCEPT ![w] = Tail(@)]
    /\ UNCHANGED <<ctor, mgr, worker_self, started, spc, conn_index, info_by_policy,
                   strackers, outcome, scalls, prev_complete, contacted, sample_policies>>
    /\ UNCHANGED <<svars, dvars, evars, avars, tvars, cvars>>

\* The manager's own steps while a call is under way.
SimpleProgress == SimpleCollectRecv \/ SimpleEvaluateRecv

\* No SimpleRolloutManager in this process.
LIdle ==
    /\ ctor = [num_steps |-> -1, parallelism |-> 1, eval_parallelism |-> 1,
               status |-> "new"]
    /\ sample_policies = {}
    /\ mgr = NoManager
    /\ worker_self = NoManager
    /\ started = {}
    /\ to_worker = [w \in Pool |-> <<>>]
    /\ to_manager = [w \in Pool |-> <<>>]
    /\ spc = "idle"
    /\ conn_index = 0
    /\ info_by_policy = EmptyInfoLists
    /\ strackers = <<>>
    /\ outcome = NoOutcome
    /\ scalls = 0
    /\ given = <<>>
    /\ prev_complete = FALSE
    /\ contacted = {}
    /\ ended = [w \in Pool |-> FALSE]

\* ------------------------------------------------------------ AgentWrapper

\* The calls made on one wrapper.
AgentCalls == 1..3
\* The transitions handed to record_transition, numbered.
Records == 1..3
\* agent2policy: both agents on one policy, or one policy each.
Assignments == {[a \in Agents |-> "p1"],
                [a \in Agents |-> IF a = "a1" THEN "p1" ELSE "p2"]}
\* The states a policy_state_dict can carry for a policy.
Versions == {1, 2}
\* The state a policy has when get_policy has made it.
MadeState == 0
\* The order of policies_to_parallelize, which is the order of self._conn.
ConnOrder == <<"p1", "p2">>
\* The arguments of choose_action: a dict, in its insertion order, of one
\* state per agent.  The state of an agent is written <<agent, call>>.
AgentOrders == {<<"a1">>, <<"a2">>, <<"a1", "a2">>, <<"a2", "a1">>}
StateByAgent(order, call) ==
    [i \in 1..Len(order) |-> [agent |-> order[i], state |-> <<order[i], call>>]]
\* The arguments of set_policy_states: a dict of states by policy id.
PolicyStateDicts == UNION {[D -> Versions] : D \in SUBSET Policies}

CHOOSE_ACTION == "choose_action"
SET_STATE == "set_state"
Modes == {EXPLORE, EXPLOIT}
InfoTypes == {"rollout_info", "exploration_params"}

\* The action a policy in state ps chooses for state s.
Act(p, ps, s) == [policy |-> p, policy_state |-> ps, state |-> s]
NoAction == Act("none", MadeState, <<>>)
NoChoice == [call |-> 0, asked |-> <<>>, action |-> [a \in Agents |-> NoAction]]
NoSnapshot == [call |-> 0, dict |-> <<>>]
NoInfo == [for |-> "none", call |-> 0, policy |-> "none", held |-> <<>>]

\* self._conn.items(), in order
Conns == SelectSeq(ConnOrder, LAMBDA p : p \in isolated)

\* agents_by_policy[p] and states_by_policy[p]
EntriesOf(sba, p) ==
    SelectSeq(sba, LAMBDA e : agent2policy[e.agent] = p)
AgentsOf(sba, p) == [i \in 1..Len(EntriesOf(sba, p)) |-> EntriesOf(sba, p)[i].agent]
StatesOf(sba, p) == [i \in 1..Len(EntriesOf(sba, p)) |-> EntriesOf(sba, p)[i].state]

\* Mutant of the grouping: a request goes to every isolated policy.
PoliciesAskedAll(sba, seen) == Conns

\* states_by_policy.items(): the isolated policies of the agents of the
\* argument, in the order of their first agent.
RECURSIVE PoliciesAsked(_, _)
PoliciesAsked(sba, seen) ==
    IF sba = <<>> THEN <<>>
    ELSE LET p == agent2policy[Head(sba).agent]
         IN  IF p \in isolated /\ p \notin seen
             THEN <<p>> \o PoliciesAsked(Tail(sba), seen \cup {p})
             ELSE PoliciesAsked(Tail(sba), seen)

Request(type, body, call) == [type |-> type, body |-> body, call |-> call]
Send(conns, msg) ==
    [p \in Policies |-> IF \E i \in 1..Len(conns) : conns[i] = p
                        THEN Append(to_host[p], msg[p]) ELSE to_host[p]]

\* policy.choose_action(states): one action for one state, and for several
\* states the list of their actions, in the order of the states.
PolicyChooseAction(p, states) ==
    [list |-> Len(states) > 1,
     v |-> [i \in 1..Len(states) |-> Act(p, policy_state[p], states[i])]]

\* Mutant of the de-multiplexing: the reply read from its end.
ItemsReversed(msg, n) ==
    IF n = 1 THEN <<IF msg.list THEN NoAction ELSE msg.v[1]>>
    ELSE [i \in 1..Len(msg.v) |-> msg.v[Len(msg.v) + 1 - i]]
\* if len(states) == 1: msg = [msg]; then the elements of msg, in order
Items(msg, n) ==
    IF n = 1 THEN <<IF msg.list THEN NoAction ELSE msg.v[1]>>
    ELSE msg.v

\* zip(agents, items) written into action
Zipped(old, agents, items) ==
    [a \in Agents |->
        IF \E i \in 1..Len(agents) : i <= Len(items) /\ agents[i] = a
        THEN items[CHOOSE i \in 1..Len(agents) : agents[i] = a]
        ELSE old[a]]

\* policy.record(agent, state, action, reward, next_state, terminal): the
\* transition is added to the experience the policy holds.
PolicyRecord(held, tr) == Append(held, tr)
\* policy.get_rollout_info(): the experience the policy holds.
PolicyRolloutInfo(p) == policy_recorded[p]

\* Mutant of the routing of a transition: the first channel, whatever the
\* agent's policy.
RecordConnFirst(agent) == Head(ConnOrder)
\* self._conn[self.agent2policy[agent]]
RecordConn(agent) == agent2policy[agent]

\* Mutant of set_policy_states: the state the policy has already is sent.
PolicyStateKept(dict, p) == policy_state[p]
\* policy_state_dict[policy_id]
PolicyStateFor(dict, p) == dict[p]

\* Mutant of the gather: only the first channel is received from.
InfoAwaitedFirst == IF Conns = <<>> THEN <<>> ELSE <<Head(Conns)>>
\* {id_: conn.recv() for id_, conn in self._conn.items()}
InfoAwaited == Conns

AInit ==
    /\ agent2policy \in Assignments
    /\ isolated \in SUBSET {agent2policy[a] : a \in Agents}
    /\ to_host = [p \in Policies |-> <<>>]
    /\ from_host = [p \in Policies |-> <<>>]
    /\ policy_state = [p \in Policies |-> MadeState]
    /\ policy_mode = [p \in Policies |-> "none"]
    /\ apc = "idle"
    /\ state_by_agent = <<>>
    /\ awaiting = <<>>
    /\ action = [a \in Agents |-> NoAction]
    /\ choice = NoChoice
    /\ info = [p \in Policies |-> NoInfo]
    /\ snapshot = NoSnapshot
    /\ acalls = 0
    /\ policy_recorded = [p \in Policies |-> <<>>]
    /\ handed = [p \in Policies |-> <<>>]

\* choose_action, up to the receive loop: one request per isolated policy
\* that has agents in the argument.
ChooseAction(sba) ==
    /\ apc = "idle"
    /\ acalls + 1 \in AgentCalls
    /\ acalls' = acalls + 1
    /\ state_by_agent' = sba
    /\ action' = [a \in Agents |-> NoAction]
    /\ awaiting' = PoliciesAsked(sba, {})
    /\ to_host' = Send(awaiting',
                       [p \in Policies |->
                           Request(CHOOSE_ACTION, StatesOf(sba, p), acalls')])
    /\ apc' = CHOOSE_ACTION
    /\ UNCHANGED <<policy_recorded, handed>>
    /\ UNCHANGED <<agent2policy, isolated, from_host, policy_state, policy_mode, choice,
                   info, snapshot>>
    /\ UNCHANGED <<svars, dvars, evars, lvars, tvars, cvars>>

\* One iteration of the receive loop of choose_action.
ChooseRecv ==
    /\ apc = CHOOSE_ACTION
    /\ awaiting # <<>>
    /\ LET p == Head(awaiting)
       IN  /\ from_host[p] # <<>>
           /\ action' = Zipped(action, AgentsOf(state_by_agent, p),
                               Items(Head(from_host[p]),
                                     Len(StatesOf(state_by_agent, p))))
           /\ from_host' = [from_host EXCEPT ![p] = Tail(@)]
    /\ awaiting' = Tail(awaiting)
    /\ UNCHANGED <<policy_recorded, handed>>
    /\ UNCHANGED <<agent2policy, isolated, to_host, policy_state, policy_mode, apc,
                   state_by_agent, choice, info, snapshot, acalls>>
    /\ UNCHANGED <<svars, dvars, evars, lvars, tvars, cvars>>

\* The return of choose_action: the actions received, and the actions of the
\* local policies.
ChooseReturn ==
    /\ apc = CHOOSE_ACTION
    /\ awaiting = <<>>
    /\ choice' =
          [call |-> acalls, asked |-> state_by_agent,
           action |->
              [a \in Agents |->
                  IF \E i \in 1..Len(state_by_agent) :
                        /\ state_by_agent[i].agent = a
                        /\ agent2policy[a] \notin isolated
                  THEN Act(agent2policy[a], policy_state[agent2policy[a]],
                           StatesOf(state_by_agent, agent2policy[a])
                              [CHOOSE i \in 1..Len(AgentsOf(state_by_agent, agent2policy[a])) :
                                  AgentsOf(state_by_agent, agent2policy[a])[i] = a])
                  ELSE action[a]]]
    /\ apc' = "idle"
    /\ UNCHANGED <<policy_recorded, handed>>
    /\ UNCHANGED <<agent2policy, isolated, to_host, from_host, policy_state, policy_mode,
                   state_by_agent, awaiting, action, info, snapshot, acalls>>
    /\ UNCHANGED <<svars, dvars, evars, lvars, tvars, cvars>>

\* The channels set_policy_states sends to before policy_state_dict[policy_id]
\* raises KeyError, all of them if it does not.
RECURSIVE SentTo(_, _)
SentTo(conns, dict) ==
    IF conns = <<>> \/ Head(conns) \notin DOMAIN dict THEN <<>>
    ELSE <<Head(conns)>> \o SentTo(Tail(conns), dict)

\* set_policy_states
SetPolicyStates(dict) ==
    /\ apc = "idle"
    /\ acalls + 1 \in AgentCalls
    /\ acalls' = acalls + 1
    /\ to_host' = Send(SentTo(Conns, dict),
                       [p \in Policies |->
                           Request(SET_STATE,
                                   IF p \in DOMAIN dict THEN <<PolicyStateFor(dict, p)>>
                                   ELSE <<>>, acalls')])
    /\ IF SentTo(Conns, dict) # Conns
       THEN /\ apc' = "raised"
            /\ UNCHANGED <<policy_state, snapshot>>
       ELSE /\ policy_state' = [p \in Policies |->
                                   IF p \in DOMAIN dict /\ p \notin isolated
                                   THEN dict[p] ELSE policy_state[p]]
            /\ snapshot' = [call |-> acalls', dict |-> dict]
            /\ apc' = "idle"
    /\ UNCHANGED <<policy_recorded, handed>>
    /\ UNCHANGED <<agent2policy, isolated, from_host, policy_mode, state_by_agent,
                   awaiting, action, choice, info>>
    /\ UNCHANGED <<svars, dvars, evars, lvars, tvars, cvars>>

\* explore and exploit
SetMode(m) ==
    /\ apc = "idle"
    /\ acalls + 1 \in AgentCalls
    /\ acalls' = acalls + 1
    /\ to_host' = Send(Conns, [p \in Policies |-> Request(m, <<>>, acalls')])
    /\ policy_mode' = [p \in Policies |-> IF p \in isolated THEN policy_mode[p] ELSE m]
    /\ UNCHANGED <<policy_recorded, handed>>
    /\ UNCHANGED <<agent2policy, isolated, from_host, policy_state, apc, state_by_agent,
                   awaiting, action, choice, info, snapshot>>
    /\ UNCHANGED <<svars, dvars, evars, lvars, tvars, cvars>>

\* get_rollout_info and get_exploration_params, up to the receives
GetInfo(type) ==
    /\ apc = "idle"
    /\ acalls + 1 \in AgentCalls
    /\ acalls' = acalls + 1
    /\ to_host' = Send(Conns, [p \in Policies |-> Request(type, <<>>, acalls')])
    /\ awaiting' = InfoAwaited
    /\ info' = [p \in Policies |-> NoInfo]
    /\ apc' = type
    /\ UNCHANGED <<policy_recorded, handed>>
    /\ UNCHANGED <<agent2policy, isolated, from_host, policy_state, policy_mode,
                   state_by_agent, action, choice, snapshot>>
    /\ UNCHANGED <<svars, dvars, evars, lvars, tvars, cvars>>

\* One conn.recv() of the gather.
InfoRecv ==
    /\ apc \in InfoTypes
    /\ awaiting # <<>>
    /\ LET p == Head(awaiting)
       IN  /\ from_host[p] # <<>>
           /\ info' = [info EXCEPT ![p] = Head(from_host[p]).v[1]]
           /\ from_host' = [from_host EXCEPT ![p] = Tail(@)]
    /\ awaiting' = Tail(awaiting)
    /\ UNCHANGED <<policy_recorded, handed>>
    /\ UNCHANGED <<agent2policy, isolated, to_host, policy_state, policy_mode, apc,
                   state_by_agent, action, choice, snapshot, acalls>>
    /\ UNCHANGED <<svars, dvars, evars, lvars, tvars, cvars>>

\* The return of the gather.
InfoReturn ==
    /\ apc \in InfoTypes
    /\ awaiting = <<>>
    /\ apc' = "idle"
    /\ UNCHANGED <<policy_recorded, handed>>
    /\ UNCHANGED <<agent2policy, isolated, to_host, from_host, policy_state, policy_mode,
                   state_by_agent, awaiting, action, choice, info, snapshot, acalls>>
    /\ UNCHANGED <<svars, dvars, evars, lvars, tvars, cvars>>

\* record_transition: a local policy records at once; for an isolated policy
\* the transition is sent on its channel and no reply is awaited.  The
\* transition is written [agent, k], the k-th transition handed over.
RecordTransition(agent) ==
    /\ apc = "idle"
    /\ LET n == Len(handed["p1"]) + Len(handed["p2"]) + 1
           tr == [agent |-> agent, k |-> n]
           p == agent2policy[agent]
       IN  /\ n \in Records
           /\ handed' = [handed EXCEPT ![p] = Append(@, tr)]
           /\ IF p \notin isolated
              THEN /\ policy_recorded' = [policy_recorded EXCEPT ![p] = PolicyRecord(@, tr)]
                   /\ UNCHANGED to_host
              ELSE /\ to_host' = [to_host EXCEPT ![RecordConn(agent)] =
                                     Append(@, Request("record", <<tr>>, acalls))]
                   /\ UNCHANGED policy_recorded
    /\ UNCHANGED <<agent2policy, isolated, from_host, policy_state, policy_mode, apc,
                   state_by_agent, awaiting, action, choice, info, snapshot, acalls>>
    /\ UNCHANGED <<svars, dvars, evars, lvars, tvars, cvars>>

\* One iteration of the loop of _policy_host.
PolicyHost(p) ==
    /\ p \in isolated
    /\ to_host[p] # <<>>
    /\ LET msg == Head(to_host[p])
       IN  /\ from_host' =
                 IF msg.type = CHOOSE_ACTION
                 THEN [from_host EXCEPT ![p] = Append(@, PolicyChooseAction(p, msg.body))]
                 ELSE IF msg.type \in InfoTypes
                 THEN [from_host EXCEPT ![p] =
                         Append(@, [list |-> FALSE,
                                    v |-> <<[for |-> msg.type, call |-> msg.call,
                                             policy |-> p,
                                             held |-> IF msg.type = "rollout_info"
                                                      THEN PolicyRolloutInfo(p)
                                                      ELSE <<>>]>>])]
                 ELSE from_host
           /\ policy_recorded' =
                 IF msg.type = "record"
                 THEN [policy_recorded EXCEPT ![p] = PolicyRecord(@, msg.body[1])]
                 ELSE policy_recorded
           /\ policy_state' = IF msg.type = SET_STATE
                              THEN [policy_state EXCEPT ![p] = msg.body[1]]
                              ELSE policy_state
           /\ policy_mode' = IF msg.type \in Modes
                             THEN [policy_mode EXCEPT ![p] = msg.type]
                             ELSE policy_mode
    /\ to_host' = [to_host EXCEPT ![p] = Tail(@)]
    /\ UNCHANGED <<handed, agent2policy, isolated, apc, state_by_agent, awaiting, action,
                   choice, info, snapshot, acalls>>
    /\ UNCHANGED <<svars, dvars, evars, lvars, tvars, cvars>>

AIdle ==
    /\ agent2policy = [a \in Agents |-> "p1"]
    /\ isolated = {}
    /\ to_host = [p \in Policies |-> <<>>]
    /\ from_host = [p \in Policies |-> <<>>]
    /\ policy_state = [p \in Policies |-> MadeState]
    /\ policy_mode = [p \in Policies |-> "none"]
    /\ apc = "idle"
    /\ state_by_agent = <<>>
    /\ awaiting = <<>>
    /\ action = [a \in Agents |-> NoAction]
    /\ choice = NoChoice
    /\ info = [p \in Policies |-> NoInfo]
    /\ snapshot = NoSnapshot
    /\ acalls = 0
    /\ policy_recorded = [p \in Policies |-> <<>>]
    /\ handed = [p \in Policies |-> <<>>]

\* ------------------------------------------------------------ EnvSampler.test

\* The test calls made one after the other, with no sample call in between.
TestCalls == 1..2

TIdle ==
    /\ get_test_env = FALSE
    /\ mode = "none"
    /\ tpc = "idle"
    /\ test_terminal = FALSE
    /\ test_steps = 0
    /\ tested = <<>>

TInit ==
    /\ get_test_env \in BOOLEAN
    /\ mode = "none"
    /\ tpc = "idle"
    /\ test_terminal = FALSE
    /\ test_steps = 0
    /\ tested = <<>>

\* Mutant of exploit(): the policies are left in the mode they were in.
TestModeKept == mode
\* self.agent_wrapper.exploit()
TestMode == EXPLOIT

\* Mutant of the return value: every test call adds to the tracker.
TestTrackerAccumulated == tracker + Len(tested) + 1
\* return self.tracker
TestTracker == tracker

\* test, up to the loop: exploit(), env.reset() and the first env.step(None).
\* Without get_test_env the env that is reset is the env sample runs, whose
\* tick is tick; the tick of an env of its own is read by nothing and is left
\* out.
TestBegin ==
    /\ pc = "idle"
    /\ tpc = "idle"
    /\ Len(tested) + 1 \in TestCalls
    /\ mode' = TestMode
    /\ tick' = IF get_test_env THEN tick ELSE 0
    /\ test_terminal' = FALSE
    /\ test_steps' = 0
    /\ tpc' = "loop"
    /\ UNCHANGED <<get_test_env, tested>>
    /\ UNCHANGED <<reward_eval_delay, state, step_index, terminal, transition_cache, pc,
                   steps_to_go, starting_step_index, result, recorded, tracker>>
    /\ UNCHANGED <<dvars, evars, lvars, avars, cvars>>

\* One iteration of the while loop of test.
TestStep ==
    /\ tpc = "loop"
    /\ ~test_terminal
    /\ test_steps < MaxSteps
    /\ IF get_test_env
       THEN UNCHANGED tick
       ELSE \E j \in Jumps : tick + j <= MaxTick /\ tick' = tick + j
    /\ test_terminal' \in BOOLEAN
    /\ test_steps' = test_steps + 1
    /\ UNCHANGED <<get_test_env, mode, tpc, tested>>
    /\ UNCHANGED <<reward_eval_delay, state, step_index, terminal, transition_cache, pc,
                   steps_to_go, starting_step_index, result, recorded, tracker>>
    /\ UNCHANGED <<dvars, evars, lvars, avars, cvars>>

\* The return of test.
TestReturn ==
    /\ tpc = "loop"
    /\ test_terminal
    /\ tested' = Append(tested, TestTracker)
    /\ test_terminal' = FALSE
    /\ test_steps' = 0
    /\ tpc' = "idle"
    /\ UNCHANGED <<get_test_env, mode>>
    /\ UNCHANGED <<svars, dvars, evars, lvars, avars, cvars>>

\* ------------------------------------------------------------ EnvSampler.actor

\* The num_episodes an actor is started with.
Episodes == 0..2
\* The sample calls one episode takes at most.
Segments == 1..3
\* The versions of the policy states the policy server makes.
ServerVersions == 0..3

\* The policy state the server holds at a version.
StateOf(version) == [made |-> version]

SessionMessage(tag, body) == [type |-> tag, body |-> body]

\* The sample calls made so far in an episode.
SegmentsOf(e) == Cardinality({i \in 1..Len(sampled) : sampled[i].ep = e})

\* Mutant of the end of an iteration: exploration_step is left as it is.
ExplorationStepKept == actor_exploration_step
\* exploration_step = False
ExplorationStepAfter == FALSE

CIdle ==
    /\ actor_pc = "new"
    /\ num_episodes = 0
    /\ actor_ep = 0
    /\ actor_exploration_step = FALSE
    /\ policy_state_dict = [made |-> -1]
    /\ policy_version = 0
    /\ actor_result = FALSE
    /\ to_server = <<>>
    /\ from_server = <<>>
    /\ server_version = 0
    /\ sampled = <<>>
    /\ served = <<>>

\* actor, up to the receive of the initial policy states.
ActorStart(n_episodes, num_steps) ==
    /\ actor_pc = "new"
    /\ IF num_steps = 0 \/ num_steps < -1
       THEN /\ actor_pc' = "raised"
            /\ UNCHANGED <<num_episodes, to_server>>
       ELSE /\ num_episodes' = n_episodes
            /\ to_server' = Append(to_server, SessionMessage("get_initial_policy_state", <<>>))
            /\ actor_pc' = "initial"
    /\ UNCHANGED <<actor_ep, actor_exploration_step, policy_state_dict, policy_version,
                   actor_result, from_server, server_version, sampled, served>>
    /\ UNCHANGED <<svars, dvars, evars, lvars, avars, tvars>>

\* The top of the for loop: the next episode, or the end of the loop.
LoopTop(e) == IF e <= num_episodes THEN "sample" ELSE "finish"

\* The receive of the initial policy states, and the entry into the loop.
ActorInitial ==
    /\ actor_pc = "initial"
    /\ from_server # <<>>
    /\ policy_state_dict' = Head(from_server).policy_state
    /\ policy_version' = Head(from_server).version
    /\ from_server' = Tail(from_server)
    /\ actor_ep' = 1
    /\ actor_exploration_step' = TRUE
    /\ actor_pc' = LoopTop(1)
    /\ UNCHANGED <<num_episodes, actor_result, to_server, server_version, sampled, served>>
    /\ UNCHANGED <<svars, dvars, evars, lvars, avars, tvars>>

\* One sample call and the send of its SAMPLE_DONE.  The call ends the
\* episode or not; the last call an episode can take ends it.
ActorSample ==
    /\ actor_pc = "sample"
    /\ \E eoe \in BOOLEAN :
          /\ SegmentsOf(actor_ep) + 1 \in Segments
          /\ SegmentsOf(actor_ep) + 2 \notin Segments => eoe
          /\ actor_result' = eoe
          /\ sampled' = Append(sampled, [ep |-> actor_ep,
                                         exploration_step |-> actor_exploration_step,
                                         policy_state_dict |-> policy_state_dict,
                                         end_of_episode |-> eoe])
    /\ to_server' = Append(to_server,
                           SessionMessage(SAMPLE_DONE,
                                          <<[rollout_info |-> Len(sampled'),
                                             version |-> policy_version]>>))
    /\ actor_pc' = "reply"
    /\ UNCHANGED <<num_episodes, actor_ep, actor_exploration_step, policy_state_dict,
                   policy_version, from_server, server_version, served>>
    /\ UNCHANGED <<svars, dvars, evars, lvars, avars, tvars>>

\* The receive of the server's reply, and the end of the iteration.
ActorReply ==
    /\ actor_pc = "reply"
    /\ from_server # <<>>
    /\ policy_state_dict' = Head(from_server).policy_state
    /\ policy_version' = Head(from_server).version
    /\ from_server' = Tail(from_server)
    /\ IF actor_result
       THEN /\ actor_ep' = actor_ep + 1
            /\ actor_exploration_step' = TRUE
            /\ actor_pc' = LoopTop(actor_ep + 1)
       ELSE /\ actor_exploration_step' = ExplorationStepAfter
            /\ actor_pc' = "sample"
            /\ UNCHANGED actor_ep
    /\ UNCHANGED <<num_episodes, actor_result, to_server, server_version, sampled, served>>
    /\ UNCHANGED <<svars, dvars, evars, lvars, avars, tvars>>

\* After the loop: the notification that the actor is done.
ActorFinish ==
    /\ actor_pc = "finish"
    /\ to_server' = Append(to_server, SessionMessage("done", <<>>))
    /\ actor_pc' = "done"
    /\ UNCHANGED <<num_episodes, actor_ep, actor_exploration_step, policy_state_dict,
                   policy_version, actor_result, from_server, server_version, sampled,
                   served>>
    /\ UNCHANGED <<svars, dvars, evars, lvars, avars, tvars>>

\* The policy server: it answers the request for the initial states with the
\* states it holds, and a SAMPLE_DONE with the states it holds after it used
\* the roll-out information, of the same version or of the next.
PolicyServer ==
    /\ to_server # <<>>
    /\ LET msg == Head(to_server)
       IN  \E v \in ServerVersions :
             /\ v = server_version \/ (msg.type = SAMPLE_DONE /\ v = server_version + 1)
             /\ server_version' = v
             /\ from_server' = IF msg.type = "done" THEN from_server
                               ELSE Append(from_server,
                                           [policy_state |-> StateOf(v), version |-> v])
             /\ served' = IF msg.type = SAMPLE_DONE THEN Append(served, msg) ELSE served
    /\ to_server' = Tail(to_server)
    /\ UNCHANGED <<actor_pc, num_episodes, actor_ep, actor_exploration_step,
                   policy_state_dict, policy_version, actor_result, sampled>>
    /\ UNCHANGED <<svars, dvars, evars, lvars, avars, tvars>>

Init == SInit /\ DIdle /\ LIdle /\ AIdle /\ TIdle /\ CIdle

Next ==
    \/ \E n \in NumSteps : SampleBegin(n)
    \/ SampleStep
    \/ SampleFlush

Spec == Init /\ [][Next]_vars

InitDist == DInit /\ EReady /\ SIdle /\ LIdle /\ AIdle /\ TIdle /\ CIdle

NextDist ==
    \/ \E r \in Rounds, d \in VersionSteps : Collect(r[1], r[2], cur.version + d)
    \/ \E w \in Workers : QuorumRecv(w)
    \/ \E w \in Workers : ExtraRecv(w)
    \/ ExtraTimeout
    \/ CollectReturn
    \/ \E w \in Workers : WorkerSample(w)

SpecDist == InitDist /\ [][NextDist]_vars

InitRemote == DNew(RemoteArgs) /\ SIdle /\ LIdle /\ AIdle /\ TIdle /\ CIdle

NextRemote ==
    \/ RemoteConstruct
    \/ \E r \in Rounds, d \in VersionSteps : Collect(r[1], r[2], cur.version + d)
    \/ \E w \in Workers : QuorumRecv(w)
    \/ \E w \in Workers : ExtraRecv(w)
    \/ ExtraTimeout
    \/ CollectReturn
    \/ \E ep \in EvalEpisodes : Evaluate(ep)
    \/ \E w \in Workers : EvaluateRecv(w)
    \/ \E w \in Workers : WorkerSample(w)
    \/ \E w \in Workers : WorkerOther(w)

SpecRemote == InitRemote /\ [][NextRemote]_vars

InitDefaults == DNew(DefaultArgs) /\ SIdle /\ LIdle /\ AIdle /\ TIdle /\ CIdle

NextDefaults ==
    \/ RemoteConstruct
    \/ \E r \in Rounds, d \in VersionSteps : Collect(r[1], r[2], cur.version + d)
    \/ \E w \in Workers : QuorumRecv(w)
    \/ \E w \in Workers : ExtraRecv(w)
    \/ ExtraTimeout
    \/ CollectReturn
    \/ \E w \in Workers : WorkerSample(w)

SpecDefaults == InitDefaults /\ [][NextDefaults]_vars

InitSimple == LInit /\ SIdle /\ DIdle /\ AIdle /\ TIdle /\ CIdle

NextSimple ==
    \/ SimpleConstruct
    \/ SimpleCollect
    \/ SimpleCollectRecv
    \/ SimpleEvaluate
    \/ SimpleEvaluateRecv
    \/ \E w \in Pool : RolloutWorker(w)

SpecSimple == InitSimple /\ [][NextSimple]_vars

InitAgent == AInit /\ SIdle /\ DIdle /\ LIdle /\ TIdle /\ CIdle

NextAgent ==
    \/ \E order \in AgentOrders : ChooseAction(StateByAgent(order, acalls + 1))
    \/ ChooseRecv
    \/ ChooseReturn
    \/ \E dict \in PolicyStateDicts : SetPolicyStates(dict)
    \/ \E m \in Modes : SetMode(m)
    \/ \E type \in InfoTypes : GetInfo(type)
    \/ InfoRecv
    \/ InfoReturn
    \/ \E p \in Policies : PolicyHost(p)

SpecAgent == InitAgent /\ [][NextAgent]_vars

\* The end of sample calls: the flush hands transitions to record_transition,
\* then get_rollout_info gathers, while the policy hosts run.
InitRecord == AInit /\ SIdle /\ DIdle /\ LIdle /\ TIdle /\ CIdle

NextRecord ==
    \/ \E a \in Agents : RecordTransition(a)
    \/ GetInfo("rollout_info")
    \/ InfoRecv
    \/ InfoReturn
    \/ \E p \in Policies : PolicyHost(p)

SpecRecord == InitRecord /\ [][NextRecord]_vars

InitActor == CIdle /\ SIdle /\ DIdle /\ LIdle /\ AIdle /\ TIdle

NextActor ==
    \/ \E n \in Episodes, num_steps \in StepArgs : ActorStart(n, num_steps)
    \/ ActorInitial
    \/ ActorSample
    \/ ActorReply
    \/ ActorFinish
    \/ PolicyServer

SpecActor == InitActor /\ [][NextActor]_vars

InitTest == SInit /\ reward_eval_delay = MaxDelay /\ TInit /\ DIdle /\ LIdle /\ AIdle /\ CIdle

NextTest ==
    \/ \E n \in NumSteps : SampleBegin(n)
    \/ SampleStep
    \/ SampleFlush
    \/ TestBegin
    \/ TestStep
    \/ TestReturn

SpecTest == InitTest /\ [][NextTest]_vars

\* ========================================================= claims, EnvSampler

\* The decision points of the records of a queue or of a call history.
Dps(q) == [i \in 1..Len(q) |-> q[i].state]
\* An agent's transitions of the episode: those recorded, then those queued.
History(a) == Dps(recorded[a]) \o Dps(transition_cache[a])
IsPrefix(p, q) == Len(p) <= Len(q) /\ SubSeq(q, 1, Len(p)) = p
Increasing(q) == \A i, j \in 1..Len(q) : i < j => q[i] < q[j]

\* C1: a record leaves an agent's queue only when the episode has terminated
\* or the current tick minus the record's tick is at least reward_eval_delay.
C1_RemovedOnlyWhenDue ==
    [][\A a \in Agents : \A i \in 1..Len(transition_cache[a]) :
          (\A k \in 1..Len(transition_cache'[a]) :
                transition_cache'[a][k] # transition_cache[a][i])
          => (terminal \/ tick - transition_cache[a][i].tick >= reward_eval_delay)]_vars

\* a call returned in mid-episode having flushed one record and kept another
C1_Witness ==
    /\ pc = "idle" /\ result.called /\ ~terminal /\ reward_eval_delay > 0
    /\ recorded["a1"] # <<>> /\ transition_cache["a1"] # <<>>

C3_RecordedInPushOrder ==
    \A a \in Agents :
        /\ Increasing(Dps(recorded[a]))
        /\ \A i, j \in 1..Len(recorded[a]) :
              i < j => recorded[a][i].tick <= recorded[a][j].tick

\* two transitions of one agent were recorded, of different ticks, while
\* the other agent recorded one
C3_Witness ==
    /\ Len(recorded["a1"]) >= 2
    /\ recorded["a1"][1].tick < recorded["a1"][2].tick
    /\ Len(recorded["a2"]) = 1

C5_NoEligibleRecordLeft ==
    (pc = "idle" /\ result.called /\ ~result.end_of_episode)
    => \A a \in Agents : \A i \in 1..Len(transition_cache[a]) :
          tick - transition_cache[a][i].tick < reward_eval_delay

Ticks(q) == [i \in 1..Len(q) |-> q[i].tick]

\* records of ticks 0 and 2 with delay 3: at tick 4 the record of tick 0 is
\* flushed and the record of tick 2 stays
C5_Witness ==
    /\ pc = "idle" /\ result.called /\ ~result.end_of_episode
    /\ reward_eval_delay = 3 /\ tick = 4
    /\ Ticks(recorded["a1"]) = <<0>>
    /\ Ticks(transition_cache["a1"]) = <<2>>

\* The steps the sample call under way has taken, and its budget: the steps
\* taken plus those it may still take.
StepsTaken == step_index - starting_step_index + 1
Budget == IF steps_to_go = Unbounded THEN Unbounded ELSE steps_to_go + StepsTaken

\* C20: a sample call with budget n >= 1 takes exactly n steps unless the
\* simulation terminates before, and then it stops at the terminating step;
\* with the unbounded budget it stops only when the simulation is terminal.
C20_StepsWithinBudget ==
    [][/\ (pc = "idle" /\ pc' = "loop") => (StepsTaken' = 0 /\ Budget' = steps_to_go')
       /\ (pc = "loop" /\ pc' = "loop")
          => /\ ~terminal /\ StepsTaken' = StepsTaken + 1 /\ Budget' = Budget
             /\ Budget # Unbounded => StepsTaken' <= Budget
       /\ (pc = "loop" /\ pc' = "idle")
          => /\ result'.step_range = <<starting_step_index, step_index>>
             /\ result'.end_of_episode = terminal
             /\ IF Budget = Unbounded THEN terminal
                ELSE \/ ~terminal /\ StepsTaken = Budget
                     \/ terminal /\ StepsTaken >= 1 /\ StepsTaken <= Budget]_vars

\* a call with budget 2 is about to return after one step, which ended the
\* episode
C20_Witness ==
    /\ pc = "loop" /\ terminal /\ StepsTaken = 1 /\ steps_to_go = 1

\* C21: the step_range a sample call returns is the inclusive range of the
\* step indices it executed: the range is empty when the call begins, every
\* step extends it by one index, it begins at 1 after a reset and right after
\* the last index of the call before otherwise.
C21_StepRangeContiguous ==
    [][/\ (pc = "idle" /\ pc' = "loop")
          => /\ step_index' = starting_step_index' - 1
             /\ starting_step_index' = IF terminal THEN 1
                                       ELSE result.step_range[2] + 1
       /\ (pc = "loop" /\ pc' = "loop")
          => /\ step_index' = step_index + 1
             /\ starting_step_index' = starting_step_index
       /\ (pc = "loop" /\ pc' = "idle")
          => /\ result'.step_range = <<starting_step_index, step_index>>
             /\ step_index' = step_index]_vars

\* the second call of an episode returned the range (2, 2)
C21_Witness ==
    /\ pc = "idle" /\ result.called /\ result.step_range = <<2, 2>>

\* C22: a sample call resets the simulation and clears the pending queues,
\* the tracker and the step index if and only if it is the first call or the
\* call before returned end_of_episode true; otherwise it continues from the
\* decision point, the tick and the queues the call before left.
C22_ResetIffEpisodeEnded ==
    [][(pc = "idle" /\ pc' = "loop")
       => IF ~result.called \/ result.end_of_episode
          THEN /\ step_index' = 0 /\ tracker' = EmptyTracker /\ tick' = 0
               /\ \A a \in Agents : transition_cache'[a] = <<>>
               /\ state'.dp = 1 /\ ~terminal'
          ELSE /\ UNCHANGED <<tick, state, step_index, transition_cache, tracker>>
               /\ ~terminal']_vars

\* a call began a second episode after a first one that wrote to the tracker
C22_Witness ==
    /\ pc = "loop" /\ step_index = 0 /\ tracker = EmptyTracker
    /\ result.called /\ result.end_of_episode

\* =========================================== claims, DistributedRolloutManager

\* A valid reply of the current call: the sample-done tag, not staler than
\* max_lag, and the episode and segment of the request.
Valid(msg) ==
    /\ msg.type = SAMPLE_DONE
    /\ cur.version - msg.version <= max_lag
    /\ msg.episode = cur.episode /\ msg.segment = cur.segment

\* The reply was counted: its tracker was appended.
Counted(msg) == \E i \in 1..Len(trackers) : trackers[i] = Token(msg)
\* The reply is part of the result.
InResult(msg) ==
    \E p \in Policies : \E i \in 1..Len(info_list_by_policy[p]) :
        info_list_by_policy[p][i] = Token(msg)

ValidReceived == Cardinality({i \in 1..Len(received) : Valid(received[i])})

\* C6: collect does not leave the quorum loop while fewer than
\* min_finished_workers valid replies have been received, and with no reply to
\* receive it has no step to take: it blocks.
C6_NoReturnBelowQuorum ==
    /\ (ncalls > 0 /\ cpc # "quorum") => ValidReceived >= min_finished_workers
    /\ (cpc = "quorum" /\ \A w \in Workers : chan[w] = <<>>) => ~ENABLED CollectProgress

\* every worker but one has replied, min_finished_workers = num_workers and
\* max_extra_recv_tries = 0: collect waits for the silent worker
C6_Witness ==
    /\ cpc = "quorum" /\ min_finished_workers = NumWorkers /\ max_extra_recv_tries = 0
    /\ num_finishes = NumWorkers - 1 /\ ValidReceived = NumWorkers - 1
    /\ \A w \in Workers : chan[w] = <<>>
    /\ Cardinality({w \in Workers : inbox[w] # <<>>}) = 1

\* C7: a received reply is counted toward the quorum and included in the
\* result if and only if it is valid.
C7_CountedIffValid ==
    \A i \in 1..Len(received) :
        /\ Counted(received[i]) <=> Valid(received[i])
        /\ Counted(received[i]) => num_finishes >= 1

\* C8: a reply for another episode or segment, received during this call, is
\* not counted toward its quorum and is not in its result.
C8_OtherRoundDiscarded ==
    /\ num_finishes = Len(trackers)
    /\ \A i \in 1..Len(received) :
          (received[i].episode # cur.episode \/ received[i].segment # cur.segment)
          => ~Counted(received[i]) /\ ~InResult(received[i])
    /\ \A i \in 1..Len(trackers) : \E k \in 1..Len(received) :
          /\ Token(received[k]) = trackers[i]
          /\ received[k].episode = cur.episode /\ received[k].segment = cur.segment

\* the second call returned after it received a straggler's reply to the
\* first call's request, made for another episode or segment
C8_Witness ==
    /\ cpc = "idle" /\ ncalls = 2 /\ num_finishes >= 1
    /\ \E i \in 1..Len(received) :
          /\ received[i].call = 1
          /\ <<received[i].episode, received[i].segment>> # <<cur.episode, cur.segment>>
          /\ cur.version - received[i].version <= max_lag

\* C9: once the quorum is reached collect is never left waiting: in the extra
\* receive loop it always has a step to take, within max_extra_recv_tries
\* attempts.
C9_ExtraPhaseNeverBlocks ==
    /\ tries <= max_extra_recv_tries
    /\ cpc \in {"extra", "wrapup"} => ENABLED CollectProgress

TokensOf(q) == [i \in 1..Len(q) |-> Token(q[i])]
ValidFor(p) == LET Test(msg) == Valid(msg) /\ p \in msg.rollout_info
               IN  TokensOf(SelectSeq(received, Test))

\* C10: collect returns, for each policy, one entry per valid reply received
\* during this call that carried experience for the policy, and nothing else.
C10_ResultPerPolicy ==
    (ncalls > 0 /\ cpc = "idle")
    => \A p \in Policies : info_list_by_policy[p] = ValidFor(p)

\* the second call returned two workers' experience for p1 and none for p2
C10_Witness ==
    /\ cpc = "idle" /\ ncalls = 2
    /\ Len(info_list_by_policy["p1"]) = 2 /\ info_list_by_policy["p2"] = <<>>
    /\ \A i \in 1..2 : info_list_by_policy["p1"][i].call = 2

\* C11: after collect returns, episode_complete is true if and only if at least
\* one worker whose reply contributed to this call reported the end of the
\* episode, in whatever order the replies were received.
C11_CompleteIffAnyEnded ==
    (ncalls > 0 /\ cpc = "idle")
    => (episode_complete <=>
            \E i \in 1..Len(received) :
                Counted(received[i]) /\ received[i].end_of_episode)

\* ================== claims, DistributedRolloutManager: construction, evaluate

\* A valid reply to the evaluate call: the evaluation-done tag and the
\* episode of the request.
ValidEval(msg) == msg.type = TEST_DONE /\ msg.episode = eval_ep
ValidEvalReceived ==
    Cardinality({i \in 1..Len(eval_received) : ValidEval(eval_received[i])})

\* C15: evaluate returns only when num_eval_workers valid replies have been
\* received, with exactly num_eval_workers trackers, whatever other messages
\* it received meanwhile.
C15_EvaluateCollectsAllTrackers ==
    (ecalls > 0 /\ epc = "idle")
    => /\ Len(eval_trackers) = num_eval_workers
       /\ ValidEvalReceived = num_eval_workers

\* C17: a coordinator constructed with num_steps 0 or below -1, or with more
\* evaluation workers than the pool has, raises at construction: it never
\* becomes ready and no request is ever sent to a worker.
C17_InvalidArgsRejected ==
    /\ ((dctor.num_steps = 0 \/ dctor.num_steps < -1
            \/ dctor.num_eval_workers > NumWorkers) /\ dctor.status # "new")
       => /\ dctor.status = "raised"
          /\ ncalls = 0 /\ ecalls = 0
          /\ \A w \in Workers : inbox[w] = <<>>
    /\ ((ctor.num_steps = 0 \/ ctor.num_steps < -1
            \/ ctor.eval_parallelism > ctor.parallelism) /\ ctor.status # "new")
       => /\ ctor.status = "raised"
          /\ started = {} /\ scalls = 0
          /\ \A w \in Pool : to_worker[w] = <<>>

\* C18: with max_lag = 0 every reply counted by a collect call, and every
\* experience in its result, carries the version passed to that call; a reply
\* of another version is discarded.
C18_OnlyCurrentVersion ==
    max_lag = 0
    => /\ \A i \in 1..Len(received) :
             received[i].version # cur.version
             => ~Counted(received[i]) /\ ~InResult(received[i])
       /\ \A i \in 1..Len(trackers) : \E k \in 1..Len(received) :
             Token(received[k]) = trackers[i] /\ received[k].version = cur.version

\* with max_lag = 0 the second call, made for the round of the first with a
\* newer version, received a straggler's reply to the first and returned
C18_Witness ==
    /\ max_lag = 0 /\ cpc = "idle" /\ ncalls = 2 /\ num_finishes >= 1
    /\ \E i \in 1..Len(received) :
          /\ received[i].version < cur.version
          /\ received[i].episode = cur.episode /\ received[i].segment = cur.segment
          /\ received[i].rollout_info # {}

\* C19: a manager constructed with min_finished_workers and
\* max_extra_recv_tries unset has min_finished_workers = num_workers and
\* max_extra_recv_tries = 0: collect leaves the quorum loop only after
\* num_workers valid replies and makes no extra receive attempt.
C19_DefaultsWaitForAll ==
    (dctor.min_finished_workers = NoArg /\ dctor.max_extra_recv_tries = NoArg
        /\ dctor.status = "ready")
    => /\ min_finished_workers = NumWorkers
       /\ max_extra_recv_tries = 0
       /\ (ncalls > 0 /\ cpc # "quorum") => ValidReceived >= NumWorkers
       /\ tries = 0
       /\ ~ENABLED ((\E w \in Workers : ExtraRecv(w)) \/ ExtraTimeout)

\* a manager constructed with both unset has returned from a collect call to
\* which every worker contributed
C19_Witness ==
    /\ dctor.min_finished_workers = NoArg /\ dctor.max_extra_recv_tries = NoArg
    /\ cpc = "idle" /\ ncalls >= 1
    /\ num_finishes = NumWorkers /\ Len(received) = NumWorkers

\* ================================================ claims, SimpleRolloutManager

\* C12: the exploration_step flag given to the samplers in a collect call is
\* true exactly when the collect call before it completed an episode, and
\* false on the first call.
C12_ExplorationStepAfterEpisode ==
    \A i \in 1..Len(given) : given[i] <=> prev_complete

\* C13: a collect call of a manager with parallelism N > 1 returns normally,
\* with one entry per worker for every policy the samplers have experience
\* for, each entry being that worker's reply to the request of this call.
C13_ParallelCollectReturns ==
    (mgr.parallelism > 1 /\ spc = "idle" /\ outcome.op = "collect")
    => /\ outcome.raised = "none"
       /\ \A p \in sample_policies :
             /\ Len(info_by_policy[p]) = mgr.parallelism
             /\ \A w \in 1..mgr.parallelism :
                   \E i \in 1..Len(info_by_policy[p]) :
                       info_by_policy[p][i] = SToken(w, scalls)

\* C14: evaluate waits only for the workers it contacted: once every
\* contacted worker has answered all it was sent, the call is not left
\* waiting, whatever workers were chosen.
C14_EvaluateWaitsForContacted ==
    (spc = "evaluate" /\ \A w \in contacted : to_worker[w] = <<>>)
    => ENABLED SimpleProgress

\* C16: a SimpleRolloutManager constructed with eval_parallelism > parallelism
\* or with parallelism < 1 raises at construction: no field is set, no worker
\* process is started and no call is ever served.
C16_InvalidPoolRejected ==
    ((ctor.eval_parallelism > ctor.parallelism \/ ctor.parallelism < 1)
        /\ ctor.status # "new")
    => /\ ctor.status = "raised"
       /\ started = {} /\ mgr = NoManager /\ scalls = 0
       /\ \A w \in Pool : to_worker[w] = <<>>

\* the construction raised for eval_parallelism > parallelism alone
C16_Witness ==
    /\ ctor.status = "raised"
    /\ ctor.eval_parallelism > ctor.parallelism
    /\ ctor.parallelism >= 1 /\ ctor.num_steps = -1

\* ========================================================= claims, AgentWrapper

Asking(q) == SelectSeq(q, LAMBDA msg : msg.type \in {CHOOSE_ACTION} \cup InfoTypes)

\* C24: on every channel to an isolated policy host at most one request
\* awaits its reply at any time; when choose_action, get_rollout_info or
\* get_exploration_params has returned no request is unanswered and no reply
\* is unread; and a reply received is the reply to the request of the call
\* that receives it.
C24_OneRequestOneReply ==
    /\ \A p \in Policies : Len(Asking(to_host[p])) + Len(from_host[p]) <= 1
    /\ apc = "idle"
       => \A p \in Policies : Asking(to_host[p]) = <<>> /\ from_host[p] = <<>>
    /\ apc \in InfoTypes
       => \A p \in Policies :
             info[p] # NoInfo
             => info[p].for = apc /\ info[p].call = acalls /\ info[p].policy = p
    /\ apc = CHOOSE_ACTION
       => \A a \in Agents :
             action[a] # NoAction
             => action[a].state = <<a, acalls>> /\ action[a].policy = agent2policy[a]

\* a gather over two channels has returned
C24_Witness ==
    /\ apc = "idle" /\ isolated = Policies
    /\ info["p1"] # NoInfo /\ info["p2"] # NoInfo

\* C25: a choose_action call made after set_policy_states(S) has returned is
\* answered, for every agent whose policy has a state in S, by that policy in
\* the state S gives it, whether the policy is local or isolated.
C25_AnsweredWithSnapshot ==
    (choice # NoChoice /\ snapshot # NoSnapshot /\ choice.call > snapshot.call)
    => \A i \in 1..Len(choice.asked) :
          LET a == choice.asked[i].agent
          IN  agent2policy[a] \in DOMAIN snapshot.dict
              => choice.action[a].policy_state = snapshot.dict[agent2policy[a]]

\* an isolated policy answered after it was given a second state
C25_Witness ==
    /\ choice # NoChoice /\ snapshot # NoSnapshot /\ choice.call > snapshot.call
    /\ snapshot.call = 2
    /\ "p1" \in isolated /\ "p1" \in DOMAIN snapshot.dict
    /\ Len(choice.asked) = 2
    /\ choice.action["a1"].policy_state = 2

\* ======================================================= claims, EnvSampler.test

\* C26: test puts the policies in exploitation mode, resets the evaluation
\* simulation and runs it until it is terminal, with no step budget; it pushes
\* no transition record and calls record_transition for none, and leaves the
\* pending queues, the step index and the terminal flag of sampling unchanged.
C26_TestLeavesSamplingAlone ==
    [][/\ (tpc = "idle" /\ tpc' = "loop")
          => /\ mode' = EXPLOIT
             /\ ~test_terminal' /\ test_steps' = 0
             /\ ~get_test_env => tick' = 0
       /\ (tpc = "loop" /\ tpc' = "loop") => mode' = EXPLOIT /\ ~test_terminal
       /\ (tpc = "loop" /\ tpc' = "idle") => test_terminal
       /\ (tpc = "loop" /\ ~test_terminal /\ test_steps < MaxSteps) => ENABLED TestStep
       /\ (tpc # "idle" \/ tpc' # "idle")
          => UNCHANGED <<transition_cache, recorded, step_index, terminal>>]_vars

\* a test call has returned in the middle of an episode that has pending records
C26_Witness ==
    /\ tpc = "idle" /\ tested # <<>> /\ mode = EXPLOIT
    /\ ~terminal /\ step_index > 0
    /\ transition_cache["a1"] # <<>>

\* C27: two test calls made one after the other return identical trackers.
C27_TestTwiceSameTracker ==
    \A i, j \in 1..Len(tested) : tested[i] = tested[j]

\* two test calls in a row have returned a tracker that is not empty
C27_Witness ==
    /\ tpc = "idle" /\ Len(tested) = 2 /\ tested[1] # EmptyTracker

\* ================================================== claims, the remote worker

\* C28: a remote worker sends exactly one SAMPLE_DONE reply for every SAMPLE
\* request it takes from its inbox, and the reply carries the episode, the
\* segment and the version of that request.
C28_OneReplyEchoingRound ==
    [][\A w \in Workers :
          IF inbox[w] # <<>> /\ Head(inbox[w]).type = SAMPLE /\ inbox'[w] = Tail(inbox[w])
          THEN /\ Len(chan'[w]) = Len(chan[w]) + 1
               /\ SubSeq(chan'[w], 1, Len(chan[w])) = chan[w]
               /\ Last(chan'[w]).type = SAMPLE_DONE
               /\ Last(chan'[w]).episode = Head(inbox[w]).episode
               /\ Last(chan'[w]).segment = Head(inbox[w]).segment
               /\ Last(chan'[w]).version = Head(inbox[w]).version
          ELSE Len(chan'[w]) <= Len(chan[w])]_vars

\* a worker has answered a request of a round after the first
C28_Witness ==
    \E w \in Workers :
       /\ chan[w] # <<>>
       /\ Last(chan[w]).type = SAMPLE_DONE
       /\ <<Last(chan[w]).episode, Last(chan[w]).segment, Last(chan[w]).version>>
             # FirstCall
       /\ inbox[w] = <<>>

\* ============================================= claims, EnvSampler: next_state

\* C29: for each transition passed to record_transition the terminal flag is
\* true exactly when the episode has terminated and the transition is the last
\* of its agent's queue; next_state is the state of the agent's following
\* queued record when one remains, no state when the episode is terminal, and
\* otherwise the agent's own state at the current decision point: one state,
\* not the states of all the agents by agent.
C29_NextStateIsAgentsOwn ==
    [][(pc = "loop" /\ pc' = "idle")
       => \A a \in Agents :
             LET q == transition_cache[a]
                 old == Len(recorded[a])
             IN  \A i \in 1..(Len(recorded'[a]) - old) :
                    LET r == recorded'[a][old + i]
                    IN  /\ r.state = q[i].state
                        /\ r.terminal <=> (terminal /\ i = Len(q))
                        /\ IF i < Len(q)
                           THEN r.next_state.dp = q[i + 1].state /\ r.next_state.agents = {}
                           ELSE IF terminal
                           THEN r.next_state.dp = NoState.dp /\ r.next_state.agents = {}
                           ELSE r.next_state.dp = state.dp /\ r.next_state.agents = {}]_vars

\* C30: with every worker live and handling each message it receives,
\* evaluate returns: the evaluation request is one the worker loop answers,
\* with a reply evaluate accepts.  So evaluate is never left waiting when the
\* workers have handled every message sent to them and no reply is on its way.
C30_EvaluateReturns ==
    epc = "recv" => \E w \in Workers : inbox[w] # <<>> \/ chan[w] # <<>>

\* C31: one choose_action call sends exactly one choose_action request to each
\* isolated policy that has an agent in state_by_agent, and none to an
\* isolated policy that has no such agent.
C31_OneRequestPerPolicyAsked ==
    [][/\ (apc = "idle" /\ apc' = CHOOSE_ACTION)
          => \A p \in Policies :
                IF /\ p \in isolated
                   /\ \E i \in 1..Len(state_by_agent') :
                         agent2policy[state_by_agent'[i].agent] = p
                THEN /\ to_host'[p] = Append(to_host[p], Last(to_host'[p]))
                     /\ Last(to_host'[p]).type = CHOOSE_ACTION
                     /\ Len(Last(to_host'[p]).body) =
                           Cardinality({i \in 1..Len(state_by_agent') :
                                           agent2policy[state_by_agent'[i].agent] = p})
                ELSE to_host'[p] = to_host[p]
       /\ apc = CHOOSE_ACTION
          => \A p \in Policies : Len(to_host'[p]) <= Len(to_host[p])]_vars

\* a call asked one of two isolated policies and not the other
C31_Witness ==
    /\ apc = CHOOSE_ACTION /\ isolated = Policies
    /\ Len(state_by_agent) = 1 /\ awaiting = <<"p2">>
    /\ to_host["p1"] = <<>> /\ Len(to_host["p2"]) = 1

\* C32: a test call made between two sample calls of one unfinished episode
\* changes nothing of what the second sample call continues from: the state,
\* the tick and the decision point of the simulation that sampling runs are
\* as the first sample call left them, with or without an evaluation
\* environment of its own.
C32_TestLeavesEpisodeAlone ==
    [][(result.called /\ ~terminal /\ (tpc # "idle" \/ tpc' # "idle"))
       => UNCHANGED <<tick, state, step_index>>]_vars

\* ================================ claims, SimpleRolloutManager: pool channels

\* C33: in a pool of N > 1 workers, when evaluate has returned no request is
\* unhandled and no reply is unread on any worker channel, so that a collect
\* call made next receives only the replies to its own requests.
C33_EvaluateLeavesChannelsEmpty ==
    (mgr.parallelism > 1 /\ spc = "idle" /\ outcome = Returned("evaluate"))
    => \A w \in Pool : to_worker[w] = <<>> /\ to_manager[w] = <<>>

\* C34: in a pool of N > 1 workers each worker calls sample with the
\* exploration_step value its request carries, and that value is true exactly
\* when the worker's sample call before it ended an episode: the exploration
\* schedule of a worker advances once after each episode, and never otherwise.
C34_WorkerExplorationStep ==
    [][\A w \in Pool :
          (/\ to_worker[w] # <<>>
           /\ Head(to_worker[w]).type = "sample"
           /\ to_worker'[w] = Tail(to_worker[w]))
          => /\ given' = Append(given, Head(to_worker[w]).exploration_step)
             /\ Last(given') <=> ended[w]]_vars

\* ============ claims, DistributedRolloutManager.collect: replies and the flag

\* C35: in collect, a received reply changes episode_complete only when it is
\* counted toward the quorum and its tracker is in the result, and every reply
\* that passes the tag, staleness and episode/segment checks is counted,
\* whatever its rollout_info contains.
C35_FlagOnlyFromCountedReplies ==
    [][\A w \in Workers :
          (chan[w] # <<>> /\ received' = Append(received, Head(chan[w])))
          => /\ episode_complete' # episode_complete
                => /\ num_finishes' = num_finishes + 1
                   /\ trackers' = Append(trackers, Token(Head(chan[w])))
             /\ Valid(Head(chan[w])) => num_finishes' = num_finishes + 1]_vars

\* ======================================= claims, EnvSampler: returned tracker

\* C36: the tracker of a result returned by sample is a snapshot.  The result
\* holds the sampler's tracker object itself, so this says that once a result
\* has been returned no later sample or test call changes that tracker.
C36_ReturnedTrackerIsSnapshot ==
    [][result.called => tracker' = tracker]_vars

\* ==================================== claims, AgentWrapper: recorded experience

\* C37: the rollout_info get_rollout_info returns holds every transition
\* handed to record_transition before it, for an isolated policy as for a
\* local one: a record message is handled by the policy host before the
\* rollout_info request that follows it on the channel.
C37_RolloutInfoHoldsEveryRecord ==
    [][(apc = "rollout_info" /\ apc' = "idle")
       => \A p \in Policies :
             IF p \in isolated THEN info[p].held = handed[p]
             ELSE PolicyRolloutInfo(p) = handed[p]]_vars

\* the second gather is about to return; both policies are isolated and each
\* was sent a transition
C37_Witness ==
    /\ apc = "rollout_info" /\ awaiting = <<>> /\ acalls = 2
    /\ isolated = Policies
    /\ handed["p1"] # <<>> /\ handed["p2"] # <<>>
    /\ info["p2"].held = handed["p2"]

\* ============== claims, DistributedRolloutManager.collect: one entry per worker

\* The entries a worker contributed to the result for a policy.
EntriesFrom(w, p) ==
    {i \in 1..Len(info_list_by_policy[p]) : info_list_by_policy[p][i].worker = w}

\* C38: in a collect call each worker contributes at most one entry per
\* policy to the result, and no more than num_workers replies are counted,
\* however late the replies to earlier calls arrive.
C38_OneEntryPerWorker ==
    /\ num_finishes <= NumWorkers
    /\ \A w \in Workers, p \in Policies : Cardinality(EntriesFrom(w, p)) <= 1

\* ================================================= claims, EnvSampler.actor

\* The SAMPLE_DONE messages sent so far, in the order they were sent.
SampleDoneSent ==
    served \o SelectSeq(to_server, LAMBDA msg : msg.type = SAMPLE_DONE)

\* C39: in actor, the exploration_step argument of a sample call is true
\* exactly when the call is the first of its episode, an episode's loop ends
\* at its first sample call that reports the end of the episode, the episodes
\* are 1..num_episodes, and every SAMPLE_DONE carries the version of the
\* policy state its sample call was given.
C39_ActorLoop ==
    /\ \A i \in 1..Len(sampled) :
          /\ sampled[i].exploration_step <=> (i = 1 \/ sampled[i - 1].ep # sampled[i].ep)
          /\ sampled[i].ep \in 1..num_episodes
          /\ i = 1 => sampled[i].ep = 1
          /\ i < Len(sampled)
             => sampled[i + 1].ep = IF sampled[i].end_of_episode
                                    THEN sampled[i].ep + 1 ELSE sampled[i].ep
    /\ actor_pc = "done"
       => IF num_episodes = 0 THEN sampled = <<>>
          ELSE /\ sampled # <<>>
               /\ Last(sampled).ep = num_episodes /\ Last(sampled).end_of_episode
    /\ Len(SampleDoneSent) = Len(sampled)
    /\ \A i \in 1..Len(SampleDoneSent) :
          /\ SampleDoneSent[i].body[1].rollout_info = i
          /\ SampleDoneSent[i].body[1].version = sampled[i].policy_state_dict.made

\* the actor is done with two episodes: the first took two sample calls, and
\* the policy version grew between the calls
C39_Witness ==
    /\ actor_pc = "done" /\ num_episodes = 2
    /\ Len(sampled) = 3 /\ ~sampled[1].end_of_episode
    /\ Len(served) = 3
    /\ served[1].body[1].version < served[2].body[1].version
    /\ served[2].body[1].version < served[3].body[1].version

====
